---- MODULE Spec2Model ----
(***************************************************************************)
(* Model of the eog-parser HTTP service (src/start.js, server part, and    *)
(* src/server.js): the fixed-window rate limiter, the POST /api/parse      *)
(* request path with its two backend strategies, and the download guard.   *)
(***************************************************************************)
EXTENDS Integers, Sequences, FiniteSets, TLC

\* ------------------------------------------------------------------ bounds
MaxTicks == 2          \* clock advances explored by the rate-limiter specification
MaxOver  == 2          \* calls explored beyond the ceiling inside one window
MaxReq   == 1          \* parse requests explored by the request-path specification (one
                       \* request with every event of both strategies; two requests in
                       \* flight square the state space)
MaxFrags == 2          \* content fragments accumulated by one gateway call
MaxDl    == 2          \* download requests explored by the download specification
MaxMsgs  == 3          \* messages of the gateway recorded for one call
MaxOutput == 4         \* length of the startup output captured from the gateway process

\* ------------------------------------------------------- program constants
RATE_LIMIT  == 100
RATE_WINDOW == 3600000
FILE_SIZE_LIMIT == 52428800
UNLINK_DELAY == 300000

ClientIds == {"ip1", "ip2"}
NoRecord  == [count |-> -1, resetAt |-> -1]     \* rateLimits.get(ip) === undefined
NoCall    == [ip |-> "none", ok |-> FALSE, nth |-> 0]
ReqIds    == 1 .. MaxReq
DlIds     == 1 .. MaxDl

VARIABLES
  rateLimits,   \* Map ip -> {count, resetAt}
  now,          \* Date.now()
  ticks,        \* number of clock advances so far
  rlCalls,      \* history: calls to checkRateLimit made in the current window, per ip
  rlLast,       \* history: the last call to checkRateLimit, its ordinal and result
  watch,        \* history: the calls that returned true inside one interval of RATE_WINDOW
  apiKeyEnv,    \* process.env.API_KEY ("" when not configured)
  gatewayReady, \* let gatewayReady
  gw,           \* startGateway: the gateway process, its promise and its 5 s timer
  listening,    \* app.listen has been called
  req,          \* POST /api/parse requests: position in the middleware chain, inputs, responses
  gwc,          \* processWithGateway calls, one per request
  cli,          \* processWithCLI calls, one per request
  uploadDir,    \* names of the files in UPLOAD_DIR
  outputDir,    \* names of the files in OUTPUT_DIR
  tmpFiles,     \* the /tmp/oc_{out,err,exit}_<timestamp>.txt files
  dl,           \* GET /api/download/:filename requests
  delTimers,    \* deletions scheduled after completed downloads, per file name
  launcher,     \* the launcher script: its own process, the gateway child, the 5 s timer
  oc,           \* processWithOpenClaw calls of the launcher's server, one per request
  inbox         \* history: the messages a gateway call has received, where they are kept

launchVars == <<launcher, oc, inbox>>
rateVars == <<rateLimits, now, ticks, rlCalls, rlLast, watch>>
parseVars == <<launchVars, apiKeyEnv, gatewayReady, gw, listening, req, gwc, cli, uploadDir, outputDir, tmpFiles>>
dlVars == <<dl, delTimers>>
vars == <<rateLimits, now, ticks, rlCalls, rlLast, watch, launcher, oc, inbox, apiKeyEnv, gatewayReady, gw,
          listening, req, gwc, cli, uploadDir, outputDir, tmpFiles, dl, delTimers>>

\* ------------------------------------------------------------ rate limiter
\* const record = rateLimits.get(ip) || { count: 0, resetAt: now + RATE_WINDOW }
RLGet(rl, ip, t) ==
  IF rl[ip] = NoRecord THEN [count |-> 0, resetAt |-> t + RATE_WINDOW] ELSE rl[ip]

\* if (now > record.resetAt) { record.count = 0; record.resetAt = now + RATE_WINDOW }
RLExpired(rec, t) == t > rec.resetAt

\* mutant: a reset that forgets the length of the new window
RLWindow_NoLength(rec, t) ==
  IF RLExpired(rec, t) THEN [count |-> 0, resetAt |-> t] ELSE rec

RLWindow(rec, t) ==
  IF RLExpired(rec, t) THEN [count |-> 0, resetAt |-> t + RATE_WINDOW] ELSE rec

\* mutant: the ceiling test off by one
RLFull_OffByOne(rec) == rec.count > RATE_LIMIT

\* if (record.count >= RATE_LIMIT) return false
RLFull(rec) == rec.count >= RATE_LIMIT

\* the value checkRateLimit(ip) returns at time t
checkRateLimit(rl, ip, t) == ~RLFull(RLWindow(RLGet(rl, ip, t), t))

\* mutant: a limiter that counts the calls it rejects
RLAfter_CountsRejected(rl, ip, t) ==
  LET rec == RLWindow(RLGet(rl, ip, t), t) IN
  [rl EXCEPT ![ip] = [rec EXCEPT !.count = rec.count + 1]]

\* the map after checkRateLimit(ip) at time t.  A record that is already in the
\* map is mutated in place (the window reset is kept even on a rejection); a
\* new record enters the map only through rateLimits.set on the accepting path.
RLAfter(rl, ip, t) ==
  LET rec == RLWindow(RLGet(rl, ip, t), t) IN
  IF RLFull(rec)
    THEN IF rl[ip] = NoRecord THEN rl ELSE [rl EXCEPT ![ip] = rec]
    ELSE [rl EXCEPT ![ip] = [rec EXCEPT !.count = rec.count + 1]]

\* history: does the call at time t open a new window for ip
RLFresh(rl, ip, t) == rl[ip] = NoRecord \/ t > rl[ip].resetAt

\* history: an interval [from, from + RATE_WINDOW] of the clock, and the calls
\* of one identity that returned true at a time inside it
NoWatch == [ip |-> "none", from |-> -1, n |-> 0]
Watched(w, ip, ok, t) ==
  IF w.ip = ip /\ ok /\ t >= w.from /\ t <= w.from + RATE_WINDOW
    THEN [w EXCEPT !.n = w.n + 1] ELSE w

\* one call of checkRateLimit(ip) observed on its own
CallCheckRateLimit(ip) ==
  LET nth == IF RLFresh(rateLimits, ip, now) THEN 1 ELSE rlCalls[ip] + 1 IN
  /\ nth <= RATE_LIMIT + MaxOver
  /\ rlLast' = [ip |-> ip, ok |-> checkRateLimit(rateLimits, ip, now), nth |-> nth]
  /\ rlCalls' = [rlCalls EXCEPT ![ip] = nth]
  /\ rateLimits' = RLAfter(rateLimits, ip, now)
  /\ watch' = Watched(watch, ip, checkRateLimit(rateLimits, ip, now), now)
  /\ UNCHANGED <<now, ticks>>
  /\ UNCHANGED <<parseVars, dlVars>>

RateCall == \E ip \in ClientIds : CallCheckRateLimit(ip)

\* the clock advances: by one millisecond, or by a whole window
Advance(limit) ==
  /\ ticks < limit
  /\ \E d \in {1, RATE_WINDOW} : now' = now + d
  /\ ticks' = ticks + 1
  /\ UNCHANGED <<rateLimits, rlCalls, rlLast, watch>>
  /\ UNCHANGED <<parseVars, dlVars>>

Tick == Advance(MaxTicks)

\* ------------------------------------------------------------------- texts
\* A text (message, file name, file content) is a sequence of characters or of
\* longer tokens; "" is the empty sequence, which JavaScript treats as falsy.
Empty == << >>
Truthy(text) == text # Empty

\* a || b || c on texts
Or3(a, b, c) == IF Truthy(a) THEN a ELSE IF Truthy(b) THEN b ELSE c

\* String.prototype.endsWith
EndsWith(s, suffix) ==
  /\ Len(s) >= Len(suffix)
  /\ SubSeq(s, Len(s) - Len(suffix) + 1, Len(s)) = suffix

\* String.prototype.includes
Includes(s, part) ==
  \E i \in 1 .. (Len(s) - Len(part) + 1) : SubSeq(s, i, i + Len(part) - 1) = part

DotCsv == <<".", "c", "s", "v">>
DotPdf == <<".", "p", "d", "f">>
DotDot == <<".", ".">>
ParsedCsv == <<"_", "p", "a", "r", "s", "e", "d">> \o DotCsv

\* `${Date.now()}-${crypto.randomBytes(4).toString('hex')}.pdf`: the timestamp
\* and the four random bytes make the stem of each upload its own.
UniqueStem(r) == <<"u", ToString(r)>>
UniqueName(r) == UniqueStem(r) \o DotPdf

\* path.basename(p, ext)
Basename(name, ext) ==
  IF EndsWith(name, ext) /\ Len(name) > Len(ext)
    THEN SubSeq(name, 1, Len(name) - Len(ext)) ELSE name

\* path.join(OUTPUT_DIR, `${baseName}_parsed.csv`), as the name inside OUTPUT_DIR
OutputCsvName(pdfName) == Basename(pdfName, DotPdf) \o ParsedCsv

\* `/api/download/${path.basename(outputCsvPath)}`
DownloadUrl(csvName) == <<"/api/download/">> \o csvName

\* ---------------------------------------------------------------- promises
Pending == [state |-> "pending", value |-> Empty]
IsPending(p) == p.state = "pending"

\* resolve(v) and reject(e) act on a pending promise only
Resolve(p, v) == IF IsPending(p) THEN [state |-> "resolved", value |-> v] ELSE p
Reject(p, e)  == IF IsPending(p) THEN [state |-> "rejected", value |-> e] ELSE p

\* clearTimeout(timeout)
ClearTimeout(t) == IF t = "armed" THEN "cleared" ELSE t

\* -------------------------------------------------------- gateway supervisor
\* chunks the gateway process writes to stdout or stderr
ReadyWords == {<<"listening">>, <<"ready">>, <<"started">>}
Chunks == {<<"gateway ", "listening">>, <<"loading ", "config">>}

\* output.includes('listening') || output.includes('ready') || output.includes('started')
SaysReady(output) == \E w \in ReadyWords : Includes(output, w)

\* the state startGateway sets up: the spawned process, let startupOutput = '',
\* let resolved = false, the promise and the 5 s timer
startGateway == [proc |-> "running", resolved |-> FALSE, timer |-> "armed", startup |-> "pending",
                 startupOutput |-> Empty, error |-> Empty,
                 settles |-> 0,        \* history: calls of resolve() and reject()
                 how |-> "none"]       \* history: the event that settled the promise

\* reject(new Error(`Gateway exited with code ${code}: ${startupOutput}`))
ExitedError(code, startupOutput) ==
  <<"Gateway exited with code ", ToString(code), ": ">> \o startupOutput

\* exit codes of the gateway process
ExitCodes == {1}

\* spawn('openclaw', args) gives a running process, or one that could not be started
Spawned == {startGateway, [startGateway EXCEPT !.proc = "spawn failed"]}

\* resolved = true; gatewayReady = true; resolve()
StartResolved(g, event) ==
  [g EXCEPT !.resolved = TRUE, !.startup = "resolved", !.settles = g.settles + 1, !.how = event]

\* resolved = true; reject(err)
StartRejected(g, err, event) ==
  [g EXCEPT !.resolved = TRUE, !.startup = "rejected", !.error = err,
            !.settles = g.settles + 1, !.how = event]

\* the gateway process ends.  Node reports it with 'close' only when the
\* output streams of the process have ended as well, so what the process wrote
\* before it ended can still arrive, and the timer can fire, in between
GwExit ==
  /\ gw.proc = "running"
  /\ gw' = [gw EXCEPT !.proc = "gone"]
  /\ UNCHANGED <<launchVars, apiKeyEnv, gatewayReady, listening, req, gwc, cli, uploadDir, outputDir, tmpFiles>>
  /\ UNCHANGED <<rateVars, dlVars>>

\* gatewayProcess.stdout.on('data') and gatewayProcess.stderr.on('data')
GwData ==
  /\ gw.proc \in {"running", "gone"}
  /\ \E output \in Chunks :
       LET heard == [gw EXCEPT !.startupOutput = gw.startupOutput \o output] IN
       /\ Len(heard.startupOutput) <= MaxOutput
       /\ IF ~gw.resolved /\ SaysReady(output)
            THEN /\ gw' = StartResolved(heard, "output")
                 /\ gatewayReady' = TRUE
            ELSE /\ gw' = heard
                 /\ UNCHANGED gatewayReady
  /\ UNCHANGED <<launchVars, apiKeyEnv, listening, req, gwc, cli, uploadDir, outputDir, tmpFiles>>
  /\ UNCHANGED <<rateVars, dlVars>>

\* gatewayProcess.on('error'): the process could not be spawned; the event
\* follows spawn() at once, before any output and before the timer
GwError ==
  /\ gw.proc = "spawn failed"
  /\ gw' = IF ~gw.resolved
             THEN [StartRejected(gw, <<"spawn openclaw ENOENT">>, "error") EXCEPT !.proc = "failed"]
             ELSE [gw EXCEPT !.proc = "failed"]
  /\ UNCHANGED <<launchVars, apiKeyEnv, gatewayReady, listening, req, gwc, cli, uploadDir, outputDir, tmpFiles>>
  /\ UNCHANGED <<rateVars, dlVars>>

\* mutant: a close handler that leaves gatewayReady as it is
GwClose_KeepsReady ==
  /\ gw.proc \in {"running", "gone", "failed"}
  /\ UNCHANGED gatewayReady
  /\ \E code \in ExitCodes :
       gw' = IF ~gw.resolved
               THEN [StartRejected(gw, ExitedError(code, gw.startupOutput), "exit")
                       EXCEPT !.proc = "exited"]
               ELSE [gw EXCEPT !.proc = "exited"]
  /\ UNCHANGED <<launchVars, apiKeyEnv, listening, req, gwc, cli, uploadDir, outputDir, tmpFiles>>
  /\ UNCHANGED <<rateVars, dlVars>>

\* gatewayProcess.on('close'): the process has ended and its streams are closed
\* (in one step from "running" where the interval between the two is not observed)
GwClose ==
  /\ gw.proc \in {"running", "gone", "failed"}
  /\ gatewayReady' = FALSE
  /\ \E code \in ExitCodes :
       gw' = IF ~gw.resolved
               THEN [StartRejected(gw, ExitedError(code, gw.startupOutput), "exit")
                       EXCEPT !.proc = "exited"]
               ELSE [gw EXCEPT !.proc = "exited"]
  /\ UNCHANGED <<launchVars, apiKeyEnv, listening, req, gwc, cli, uploadDir, outputDir, tmpFiles>>
  /\ UNCHANGED <<rateVars, dlVars>>

\* mutant: a timer that assumes readiness without looking at `resolved`
GwTimer_Blind ==
  /\ gw.timer = "armed"
  /\ gw.proc # "spawn failed"
  /\ gw' = IF ~gw.resolved THEN [StartResolved(gw, "timer") EXCEPT !.timer = "fired"]
           ELSE [gw EXCEPT !.timer = "fired"]
  /\ gatewayReady' = TRUE
  /\ UNCHANGED <<launchVars, apiKeyEnv, listening, req, gwc, cli, uploadDir, outputDir, tmpFiles>>
  /\ UNCHANGED <<rateVars, dlVars>>

\* setTimeout(..., 5000): assume ready if nothing has settled the start
GwTimer ==
  /\ gw.timer = "armed"
  /\ gw.proc # "spawn failed"
  /\ IF ~gw.resolved
       THEN /\ gw' = [StartResolved(gw, "timer") EXCEPT !.timer = "fired"]
            /\ gatewayReady' = TRUE
       ELSE /\ gw' = [gw EXCEPT !.timer = "fired"]
            /\ UNCHANGED gatewayReady
  /\ UNCHANGED <<launchVars, apiKeyEnv, listening, req, gwc, cli, uploadDir, outputDir, tmpFiles>>
  /\ UNCHANGED <<rateVars, dlVars>>

\* main(): await startGateway() in try/catch, then app.listen
MainListen ==
  /\ gw.startup # "pending"
  /\ ~listening
  /\ listening' = TRUE
  /\ UNCHANGED <<launchVars, apiKeyEnv, gatewayReady, gw, req, gwc, cli, uploadDir, outputDir, tmpFiles>>
  /\ UNCHANGED <<rateVars, dlVars>>

\* ------------------------------------------------- the launcher script
\* src/start.js, first part: spawn('openclaw', ['gateway']), exit on a spawn
\* error, and require('./server.js') five seconds later
LauncherNone == [service |-> "none", proc |-> "none", timer |-> "none"]
Launcher == [service |-> "running", proc |-> "spawning", timer |-> "armed"]

\* the child process has been created and runs
LaunchSpawned ==
  /\ launcher.service = "running"
  /\ launcher.proc = "spawning"
  /\ launcher' = [launcher EXCEPT !.proc = "running"]
  /\ UNCHANGED <<oc, inbox, apiKeyEnv, gatewayReady, gw, listening, req, gwc, cli, uploadDir, outputDir, tmpFiles>>
  /\ UNCHANGED <<rateVars, dlVars>>

\* gateway.on('error', (err) => { console.error(...); process.exit(1); })
OnLaunchError(l) == [l EXCEPT !.proc = "failed", !.service = "exit 1", !.timer = "dropped"]

\* the child could not be spawned: 'error' is emitted right after spawn()
LaunchError ==
  /\ launcher.service = "running"
  /\ launcher.proc = "spawning"
  /\ launcher' = OnLaunchError(launcher)
  /\ UNCHANGED <<oc, inbox, apiKeyEnv, gatewayReady, gw, listening, req, gwc, cli, uploadDir, outputDir, tmpFiles>>
  /\ UNCHANGED <<rateVars, dlVars>>

\* the gateway child exits on its own; the launcher listens to no 'close' event
LaunchGatewayExit ==
  /\ launcher.service = "running"
  /\ launcher.proc = "running"
  /\ launcher' = [launcher EXCEPT !.proc = "exited"]
  /\ UNCHANGED <<oc, inbox, apiKeyEnv, gatewayReady, gw, listening, req, gwc, cli, uploadDir, outputDir, tmpFiles>>
  /\ UNCHANGED <<rateVars, dlVars>>

\* setTimeout(() => require('./server.js'), 5000): server.js ends with app.listen
LaunchServer ==
  /\ launcher.service = "running"
  /\ launcher.proc # "spawning"
  /\ launcher.timer = "armed"
  /\ launcher' = [launcher EXCEPT !.timer = "fired"]
  /\ listening' = TRUE
  /\ UNCHANGED <<oc, inbox, apiKeyEnv, gatewayReady, gw, req, gwc, cli, uploadDir, outputDir, tmpFiles>>
  /\ UNCHANGED <<rateVars, dlVars>>

\* ------------------------------------------------------------ parse requests
PdfType == "application/pdf"
NoFile  == [mimetype |-> "", size |-> 0]                 \* no 'pdf' field in the request
Files   == { NoFile,
             [mimetype |-> PdfType, size |-> 1],
             [mimetype |-> "text/plain", size |-> 1],
             [mimetype |-> PdfType, size |-> FILE_SIZE_LIMIT + 1] }
Keys    == {"secret", "wrong"}                          \* the x-api-key header
EnvKeys == {"", "secret"}                               \* process.env.API_KEY

\* an HTTP response: res.status(s).json(body), or the page of Express's default
\* error handler (json = FALSE) when a middleware calls next(err)
Resp(status, success, message, downloadUrl, error, note, json) ==
  [status |-> status, success |-> success, message |-> message,
   downloadUrl |-> downloadUrl, error |-> error, note |-> note, json |-> json]

ErrorJson(status, text) == Resp(status, FALSE, Empty, Empty, text, FALSE, TRUE)

\* no error-handling middleware is registered: Express answers next(err) with
\* err.status || err.statusCode || 500, HTML body (NODE_ENV=production hides the message)
DefaultErrorStatus(err) == IF err.status \in 400 .. 599 THEN err.status ELSE 500
ExpressDefaultError(err) ==
  Resp(DefaultErrorStatus(err), FALSE, Empty, Empty, <<"Internal Server Error">>, FALSE, FALSE)

\* new Error(text) and multer's MulterError carry no status property
PlainError(text) == [status |-> 0, message |-> text]

ReqIdle == [pc |-> "idle", ip |-> "none", key |-> "", file |-> NoFile, hasFile |-> FALSE,
            resp |-> << >>, cleanup |-> "none",
            quota |-> -1,     \* history: requests left in the window when the gate was reached
            dispatch |-> "none",   \* history: gatewayReady as the handler read it
            tries |-> << >>,       \* history: the strategies started for the request
            stages |-> << >>]      \* history: the components that have taken the request

GwcNone == [ws |-> "none", fullResponse |-> Empty, messageReceived |-> FALSE,
            timeout |-> "none", promise |-> [state |-> "none", value |-> Empty], sent |-> 0]

NoOutcome == [status |-> -1, out |-> Empty, err |-> Empty]
CliNone == [proc |-> "none", ts |-> -1, timeout |-> "none",
            promise |-> [state |-> "none", value |-> Empty],
            outcome |-> NoOutcome]    \* history: what the shell command left behind

Respond(r, response) == [req[r] EXCEPT !.resp = Append(@, response)]

\* a client sends POST /api/parse
Arrive(r) ==
  /\ listening
  /\ req[r].pc = "idle"
  /\ \A q \in ReqIds : q < r => req[q].pc # "idle"
  /\ \E ip \in ClientIds, key \in Keys, file \in Files :
       req' = [req EXCEPT ![r] = [ReqIdle EXCEPT !.pc = "validateApiKey", !.ip = ip,
                                                 !.key = key, !.file = file]]
  /\ UNCHANGED <<launchVars, apiKeyEnv, gatewayReady, gw, listening, gwc, cli, uploadDir, outputDir, tmpFiles>>
  /\ UNCHANGED <<rateVars, dlVars>>

\* if (requiredKey && apiKey !== requiredKey)
KeyRejected(requiredKey, apiKey) == requiredKey # "" /\ apiKey # requiredKey

\* mutant: a chain that counts the request before it looks at the key
validateApiKey_CountsFirst(r) ==
  /\ req[r].pc = "validateApiKey"
  /\ rateLimits' = RLAfter(rateLimits, req[r].ip, now)
  /\ req' = IF KeyRejected(apiKeyEnv, req[r].key)
              THEN [req EXCEPT ![r] =
                      [Respond(r, ErrorJson(401, <<"Invalid API key">>)) EXCEPT !.pc = "done"]]
              ELSE [req EXCEPT ![r].pc = "upload"]
  /\ UNCHANGED <<launchVars, apiKeyEnv, gatewayReady, gw, listening, gwc, cli, uploadDir, outputDir, tmpFiles>>
  /\ UNCHANGED <<now, ticks, rlCalls, rlLast, watch, dlVars>>

\* mutant: a chain without the rate-limiting middleware
validateApiKey_SkipsGate(r) ==
  /\ req[r].pc = "validateApiKey"
  /\ req' = IF KeyRejected(apiKeyEnv, req[r].key)
              THEN [req EXCEPT ![r] =
                      [Respond(r, ErrorJson(401, <<"Invalid API key">>)) EXCEPT !.pc = "done"]]
              ELSE [req EXCEPT ![r].pc = "upload"]
  /\ UNCHANGED <<launchVars, apiKeyEnv, gatewayReady, gw, listening, gwc, cli, uploadDir, outputDir, tmpFiles>>
  /\ UNCHANGED <<rateVars, dlVars>>

\* the first middleware of app.post('/api/parse', validateApiKey, ...)
validateApiKey(r) ==
  /\ req[r].pc = "validateApiKey"
  /\ req' = IF KeyRejected(apiKeyEnv, req[r].key)
              THEN [req EXCEPT ![r] =
                      [Respond(r, ErrorJson(401, <<"Invalid API key">>)) EXCEPT !.pc = "done"]]
              ELSE [req EXCEPT ![r].pc = "rateGate"]
  /\ UNCHANGED <<launchVars, apiKeyEnv, gatewayReady, gw, listening, gwc, cli, uploadDir, outputDir, tmpFiles>>
  /\ UNCHANGED <<rateVars, dlVars>>

\* history: the requests an identity has left in its window at time t
QuotaLeft(rl, ip, t) ==
  IF rl[ip] = NoRecord \/ t > rl[ip].resetAt THEN RATE_LIMIT ELSE RATE_LIMIT - rl[ip].count

\* the second middleware: if (!checkRateLimit(ip)) return res.status(429)...; next()
RateGate(r) ==
  /\ req[r].pc = "rateGate"
  /\ rateLimits' = RLAfter(rateLimits, req[r].ip, now)
  /\ watch' = Watched(watch, req[r].ip, checkRateLimit(rateLimits, req[r].ip, now), now)
  /\ LET seen == [req[r] EXCEPT !.quota = QuotaLeft(rateLimits, req[r].ip, now),
                                !.stages = Append(@, "Rate Limiter")] IN
     req' = IF checkRateLimit(rateLimits, req[r].ip, now)
              THEN [req EXCEPT ![r] = [seen EXCEPT !.pc = "upload"]]
              ELSE [req EXCEPT ![r] =
                      [seen EXCEPT !.pc = "done",
                         !.resp = Append(@, ErrorJson(429, <<"Rate limit exceeded. Try again later.">>))]]
  /\ UNCHANGED <<now, ticks, rlCalls, rlLast, dlVars>>
  /\ UNCHANGED <<launchVars, apiKeyEnv, gatewayReady, gw, listening, gwc, cli, uploadDir, outputDir, tmpFiles>>

\* mutant: a filter that lets every content-type through
FileFilterAccepts_Any(file) == file.mimetype = file.mimetype

\* fileFilter: (req, file, cb) => mimetype === 'application/pdf' ? cb(null, true) : cb(new Error(...))
FileFilterAccepts(file) == file.mimetype = PdfType

\* limits: { fileSize: 50 * 1024 * 1024 }
OverSizeLimit(file) == file.size > FILE_SIZE_LIMIT

\* upload.single('pdf'), first part: no file field, or the filter, then the
\* disk storage starts to write the file under its generated name
MulterFilter(r) ==
  /\ req[r].pc = "upload"
  /\ IF req[r].file = NoFile
       THEN /\ req' = [req EXCEPT ![r].pc = "handler",
                                     ![r].stages = Append(@, "Upload Handler")]
            /\ UNCHANGED uploadDir
       ELSE IF ~FileFilterAccepts(req[r].file)
         THEN /\ req' = [req EXCEPT ![r] =
                   [Respond(r, ExpressDefaultError(PlainError(<<"Only PDF files allowed">>)))
                      EXCEPT !.pc = "done", !.stages = Append(@, "Upload Handler")]]
              /\ UNCHANGED uploadDir
         ELSE /\ req' = [req EXCEPT ![r].pc = "storing",
                                       ![r].stages = Append(@, "Upload Handler")]
              /\ uploadDir' = uploadDir \cup {UniqueName(r)}
  /\ UNCHANGED <<launchVars, apiKeyEnv, gatewayReady, gw, listening, gwc, cli, outputDir, tmpFiles>>
  /\ UNCHANGED <<rateVars, dlVars>>

\* upload.single('pdf'), second part: the stream ends (req.file is set), or it
\* passes the size limit (multer removes the partial file and calls next(err))
MulterStore(r) ==
  /\ req[r].pc = "storing"
  /\ IF OverSizeLimit(req[r].file)
       THEN /\ req' = [req EXCEPT ![r] =
                   [Respond(r, ExpressDefaultError(PlainError(<<"File too large">>)))
                      EXCEPT !.pc = "done"]]
            /\ uploadDir' = uploadDir \ {UniqueName(r)}
       ELSE /\ req' = [req EXCEPT ![r].pc = "handler", ![r].hasFile = TRUE]
            /\ UNCHANGED uploadDir
  /\ UNCHANGED <<launchVars, apiKeyEnv, gatewayReady, gw, listening, gwc, cli, outputDir, tmpFiles>>
  /\ UNCHANGED <<rateVars, dlVars>>

\* ------------------------------------------------ Strategy A: processWithGateway
\* messages of the gateway: JSON objects with a type tag, or text that is not JSON
Json(type, content, text, error, message) ==
  [json |-> TRUE, type |-> type, content |-> content, text |-> text,
   error |-> error, message |-> message, raw |-> Empty]
PlainText(raw) ==
  [json |-> FALSE, type |-> "", content |-> Empty, text |-> Empty,
   error |-> Empty, message |-> Empty, raw |-> raw]

Messages ==
  { Json("content", <<"a">>, Empty, Empty, Empty),
    Json("text", Empty, <<"a">>, Empty, Empty),
    Json("done", Empty, Empty, Empty, Empty),
    Json("complete", Empty, Empty, Empty, Empty),
    Json("error", Empty, Empty, <<"agent failed">>, Empty),
    Json("error", Empty, Empty, Empty, Empty),
    PlainText(<<"raw">>) }

\* history: a call's record of received messages; it is kept only where the
\* messages themselves are under study, and is empty elsewhere
NoInbox  == [kept |-> FALSE, msgs |-> << >>]
NewInbox == [kept |-> TRUE, msgs |-> << >>]
Logged(ib, msg) == IF ib.kept THEN [ib EXCEPT !.msgs = Append(@, msg)] ELSE ib

\* ws.close()
WsCloseCall(ws) ==
  CASE ws = "open" -> "closing"
    [] ws = "connecting" -> "aborted"    \* the handshake is aborted: 'error', then 'close'
    [] OTHER -> ws

\* the body of processWithGateway up to the registration of the handlers
processWithGateway(ready) ==
  IF ~ready
    THEN [GwcNone EXCEPT !.promise = Reject(Pending, <<"Gateway not ready">>)]
    ELSE [GwcNone EXCEPT !.ws = "connecting", !.timeout = "armed", !.promise = Pending]

\* mutant: a timeout that spares a call holding partial content
GatewayTimeoutFired_Lenient(c) ==
  [c EXCEPT !.timeout = "fired",
            !.ws = WsCloseCall(c.ws),
            !.promise = IF ~c.messageReceived /\ ~Truthy(c.fullResponse)
                          THEN Reject(c.promise, <<"Gateway timeout">>)
                        ELSE c.promise]

\* setTimeout(() => { ws.close(); if (!messageReceived) reject(...) }, 300000)
GatewayTimeoutFired(c) ==
  [c EXCEPT !.timeout = "fired",
            !.ws = WsCloseCall(c.ws),
            !.promise = IF ~c.messageReceived THEN Reject(c.promise, <<"Gateway timeout">>)
                        ELSE c.promise]

\* ws.on('open'): send the request envelope
OnWsOpen(c) == [c EXCEPT !.ws = "open", !.sent = c.sent + 1]

\* mutant: a handler that puts each fragment in front of the buffer
OnWsMessage_Prepend(c, msg) ==
  IF ~msg.json
    THEN [c EXCEPT !.fullResponse = msg.raw \o c.fullResponse]
  ELSE IF msg.type \in {"content", "text"}
    THEN [c EXCEPT !.fullResponse = Or3(msg.content, msg.text, Empty) \o c.fullResponse]
  ELSE IF msg.type \in {"done", "complete", "end"}
    THEN [c EXCEPT !.messageReceived = TRUE,
                   !.timeout = ClearTimeout(c.timeout),
                   !.ws = WsCloseCall(c.ws),
                   !.promise = Resolve(c.promise, c.fullResponse)]
  ELSE IF msg.type = "error"
    THEN [c EXCEPT !.messageReceived = TRUE,
                   !.timeout = ClearTimeout(c.timeout),
                   !.ws = WsCloseCall(c.ws),
                   !.promise = Reject(c.promise, Or3(msg.error, msg.message, <<"Gateway error">>))]
  ELSE c

\* ws.on('message')
OnWsMessage(c, msg) ==
  IF ~msg.json
    THEN [c EXCEPT !.fullResponse = c.fullResponse \o msg.raw]
  ELSE IF msg.type \in {"content", "text"}
    THEN [c EXCEPT !.fullResponse = c.fullResponse \o Or3(msg.content, msg.text, Empty)]
  ELSE IF msg.type \in {"done", "complete", "end"}
    THEN [c EXCEPT !.messageReceived = TRUE,
                   !.timeout = ClearTimeout(c.timeout),
                   !.ws = WsCloseCall(c.ws),
                   !.promise = Resolve(c.promise, c.fullResponse)]
  ELSE IF msg.type = "error"
    THEN [c EXCEPT !.messageReceived = TRUE,
                   !.timeout = ClearTimeout(c.timeout),
                   !.ws = WsCloseCall(c.ws),
                   !.promise = Reject(c.promise, Or3(msg.error, msg.message, <<"Gateway error">>))]
  ELSE c

\* mutant: an error handler that lets a call holding partial content succeed
OnWsError_Lenient(c, err) ==
  [c EXCEPT !.ws = "errored",
            !.timeout = ClearTimeout(c.timeout),
            !.promise = IF ~c.messageReceived /\ Truthy(c.fullResponse)
                          THEN Resolve(c.promise, c.fullResponse)
                        ELSE IF ~c.messageReceived THEN Reject(c.promise, err)
                        ELSE c.promise]

\* ws.on('error')
OnWsError(c, err) ==
  [c EXCEPT !.ws = "errored",
            !.timeout = ClearTimeout(c.timeout),
            !.promise = IF ~c.messageReceived THEN Reject(c.promise, err) ELSE c.promise]

\* ws.on('close')
OnWsClose(c) ==
  [c EXCEPT !.ws = "closed",
            !.timeout = ClearTimeout(c.timeout),
            !.promise = IF ~c.messageReceived /\ Truthy(c.fullResponse)
                          THEN Resolve(c.promise, c.fullResponse)
                        ELSE IF ~c.messageReceived
                          THEN Reject(c.promise, <<"WebSocket closed without response">>)
                        ELSE c.promise]

GwcUnchanged == UNCHANGED <<launchVars, apiKeyEnv, gatewayReady, gw, listening, req, cli, uploadDir,
                            outputDir, tmpFiles>>

GatewayTimeout(r) ==
  /\ gwc[r].timeout = "armed"
  /\ gwc' = [gwc EXCEPT ![r] = GatewayTimeoutFired(gwc[r])]
  /\ GwcUnchanged /\ UNCHANGED <<rateVars, dlVars>>

WsOpen(r) ==
  /\ gwc[r].ws = "connecting"
  /\ gwc' = [gwc EXCEPT ![r] = OnWsOpen(gwc[r])]
  /\ GwcUnchanged /\ UNCHANGED <<rateVars, dlVars>>

WsMessage(r) ==
  /\ gwc[r].ws \in {"open", "closing"}
  /\ Len(inbox[r].msgs) < MaxMsgs
  /\ \E msg \in Messages :
       /\ Len(OnWsMessage(gwc[r], msg).fullResponse) <= MaxFrags
       /\ gwc' = [gwc EXCEPT ![r] = OnWsMessage(gwc[r], msg)]
       /\ inbox' = [inbox EXCEPT ![r] = Logged(@, msg)]
  /\ UNCHANGED <<launcher, oc, apiKeyEnv, gatewayReady, gw, listening, req, cli, uploadDir,
                 outputDir, tmpFiles>>
  /\ UNCHANGED <<rateVars, dlVars>>

WsError(r) ==
  /\ gwc[r].ws \in {"connecting", "open", "closing", "aborted"}
  /\ LET err == IF gwc[r].ws = "aborted"
                  THEN <<"WebSocket was closed before the connection was established">>
                  ELSE <<"connect ECONNREFUSED">> IN
     gwc' = [gwc EXCEPT ![r] = OnWsError(gwc[r], err)]
  /\ GwcUnchanged /\ UNCHANGED <<rateVars, dlVars>>

WsClose(r) ==
  /\ gwc[r].ws \in {"open", "closing", "errored"}
  /\ gwc' = [gwc EXCEPT ![r] = OnWsClose(gwc[r])]
  /\ GwcUnchanged /\ UNCHANGED <<rateVars, dlVars>>

\* --------------------------------------------------- Strategy B: processWithCLI
\* /tmp/oc_out_<ts>.txt, /tmp/oc_err_<ts>.txt, /tmp/oc_exit_<ts>.txt
TmpFile(kind, ts, content) == [kind |-> kind, ts |-> ts, content |-> content]
TmpExists(files, kind, ts) == \E f \in files : f.kind = kind /\ f.ts = ts
TmpRead(files, kind, ts) == (CHOOSE f \in files : f.kind = kind /\ f.ts = ts).content
TmpWithout(files, ts) == {f \in files : f.ts # ts}

Digits == <<"0", "1", "2", "3", "4", "5", "6", "7", "8", "9">>
IsDigit(ch) == \E i \in 1 .. 10 : Digits[i] = ch
DigitVal(ch) == (CHOOSE i \in 1 .. 10 : Digits[i] = ch) - 1
IsSpace(ch) == ch \in {" ", "\n"}

\* String.prototype.trim
RECURSIVE TrimLeft(_)
TrimLeft(s) == IF s # Empty /\ IsSpace(Head(s)) THEN TrimLeft(Tail(s)) ELSE s
RECURSIVE TrimRight(_)
TrimRight(s) ==
  IF s # Empty /\ IsSpace(s[Len(s)]) THEN TrimRight(SubSeq(s, 1, Len(s) - 1)) ELSE s
Trim(s) == TrimRight(TrimLeft(s))

\* parseInt: the value of the leading digits, NaN when there is none
RECURSIVE LeadingDigits(_, _)
LeadingDigits(s, acc) ==
  IF s # Empty /\ IsDigit(Head(s)) THEN LeadingDigits(Tail(s), acc * 10 + DigitVal(Head(s)))
  ELSE acc
ParseInt(s) ==
  IF s # Empty /\ IsDigit(Head(s)) THEN [nan |-> FALSE, val |-> LeadingDigits(s, 0)]
  ELSE [nan |-> TRUE, val |-> 0]

\* n || 1 on the result of parseInt: NaN and 0 are falsy
OrOne(n) == IF n.nan \/ n.val = 0 THEN 1 ELSE n.val

\* exitCode = parseInt(fs.readFileSync(exitFile, 'utf-8').trim()) || 1, 1 without the file
ExitCode(files, ts) ==
  IF TmpExists(files, "exit", ts) THEN OrOne(ParseInt(Trim(TmpRead(files, "exit", ts)))) ELSE 1

ReadOrEmpty(files, kind, ts) ==
  IF TmpExists(files, kind, ts) THEN TmpRead(files, kind, ts) ELSE Empty

\* what one run of the shell command leaves: exit status, stdout, stderr
ProcOutcomes ==
  { [status |-> 0, out |-> <<"csv written">>, err |-> Empty],
    [status |-> 1, out |-> Empty, err |-> <<"agent error">>],
    [status |-> 2, out |-> <<"usage">>, err |-> Empty],
    [status |-> 1, out |-> Empty, err |-> Empty] }

\* `echo $? > exitFile`
EchoStatus(status) == <<ToString(status), "\n">>

\* the body of processWithCLI up to the registration of the handlers
processWithCLI(t) == [CliNone EXCEPT !.proc = "running", !.ts = t, !.timeout = "armed",
                              !.promise = Pending]

\* setTimeout(() => { proc.kill('SIGTERM'); reject(...) }, 300000)
CliTimeoutFired(c) ==
  [c EXCEPT !.timeout = "fired",
            !.proc = IF c.proc = "running" THEN "killed" ELSE c.proc,
            !.promise = Reject(c.promise,
                               <<"Timeout waiting for OpenClaw response (5 minutes)">>)]

\* proc.on('close'): settle from the three captured files
OnCliClose(c, files) ==
  LET stdout == ReadOrEmpty(files, "out", c.ts)
      stderr == ReadOrEmpty(files, "err", c.ts)
      exitCode == ExitCode(files, c.ts) IN
  [c EXCEPT !.proc = "closed",
            !.timeout = ClearTimeout(c.timeout),
            !.promise = IF exitCode = 0
                          THEN Resolve(c.promise, stdout)
                          ELSE Reject(c.promise,
                                 <<"OpenClaw exited with code ", ToString(exitCode), ": ">>
                                   \o Or3(stderr, stdout, <<"No output">>))]

\* proc.on('error')
OnCliError(c, err) ==
  [c EXCEPT !.proc = "failed",
            !.timeout = ClearTimeout(c.timeout),
            !.promise = Reject(c.promise, err)]

CliUnchanged == UNCHANGED <<launchVars, apiKeyEnv, gatewayReady, gw, listening, req, gwc, uploadDir,
                            outputDir>>

\* the shell command runs to its end: the redirections and `echo $?` write the files
ProcExit(r) ==
  /\ cli[r].proc = "running"
  /\ \E o \in ProcOutcomes :
       /\ tmpFiles' = TmpWithout(tmpFiles, cli[r].ts) \cup
                     { TmpFile("out", cli[r].ts, o.out), TmpFile("err", cli[r].ts, o.err),
                       TmpFile("exit", cli[r].ts, EchoStatus(o.status)) }
       /\ cli' = [cli EXCEPT ![r].proc = "exited", ![r].outcome = o]
  /\ CliUnchanged /\ UNCHANGED <<rateVars, dlVars>>

CliTimeout(r) ==
  /\ cli[r].timeout = "armed"
  /\ cli' = [cli EXCEPT ![r] = CliTimeoutFired(cli[r])]
  /\ UNCHANGED tmpFiles
  /\ CliUnchanged /\ UNCHANGED <<rateVars, dlVars>>

CliClose(r) ==
  /\ cli[r].proc \in {"exited", "killed", "failed"}
  /\ cli' = [cli EXCEPT ![r] = OnCliClose(cli[r], tmpFiles)]
  /\ tmpFiles' = TmpWithout(tmpFiles, cli[r].ts)
  /\ CliUnchanged /\ UNCHANGED <<rateVars, dlVars>>

CliError(r) ==
  /\ cli[r].proc = "running"
  /\ cli' = [cli EXCEPT ![r] = OnCliError(cli[r], <<"spawn sh EAGAIN">>)]
  /\ UNCHANGED tmpFiles
  /\ CliUnchanged /\ UNCHANGED <<rateVars, dlVars>>

\* --------------------------------------------------- POST /api/parse handler
\* mutant: the download link is sent without looking at the disk
SuccessResponse_AlwaysUrl(r, result, files) ==
  Resp(200, TRUE, <<"PDF parsed successfully">>,
       DownloadUrl(OutputCsvName(UniqueName(r))), Empty, FALSE, TRUE)

\* the two res.json bodies after a strategy has resolved
SuccessResponse(r, result, files) ==
  LET outputCsv == OutputCsvName(UniqueName(r)) IN
  IF outputCsv \in files
    THEN Resp(200, TRUE, <<"PDF parsed successfully">>, DownloadUrl(outputCsv), Empty, FALSE, TRUE)
    ELSE Resp(200, TRUE, result, Empty, Empty, TRUE, TRUE)

\* mutant: a handler that schedules no cleanup
Finished_NoCleanup(r, response) == [Respond(r, response) EXCEPT !.pc = "done"]

\* finally { setTimeout(() => fs.unlink(pdfPath, ...), 60000) }
Finished(r, response) == [Respond(r, response) EXCEPT !.pc = "done", !.cleanup = "armed"]

\* mutant: a dispatcher that tries the gateway whatever gatewayReady says
Handler_AlwaysGateway(r) ==
  /\ launcher = LauncherNone
  /\ req[r].pc = "handler"
  /\ req[r].hasFile
  /\ req' = [req EXCEPT ![r].pc = "awaitGateway",
                        ![r].dispatch = IF gatewayReady THEN "ready" ELSE "not ready",
                        ![r].tries = Append(@, "A"),
                        ![r].stages = Append(@, "Backend Dispatcher")]
  /\ gwc' = [gwc EXCEPT ![r] = processWithGateway(gatewayReady)]
  /\ UNCHANGED <<launchVars, apiKeyEnv, gatewayReady, gw, listening, cli, uploadDir, outputDir, tmpFiles>>
  /\ UNCHANGED <<rateVars, dlVars>>

\* the handler of the integrated server up to its first await
Handler(r) ==
  /\ launcher = LauncherNone
  /\ req[r].pc = "handler"
  /\ IF ~req[r].hasFile
       THEN /\ req' = [req EXCEPT ![r] =
                   [Respond(r, ErrorJson(400, <<"No PDF file uploaded">>)) EXCEPT !.pc = "done"]]
            /\ UNCHANGED <<gwc, cli>>
       ELSE IF gatewayReady
         THEN /\ req' = [req EXCEPT ![r].pc = "awaitGateway", ![r].dispatch = "ready",
                                       ![r].tries = Append(@, "A"),
                                       ![r].stages = Append(@, "Backend Dispatcher")]
              /\ gwc' = [gwc EXCEPT ![r] = processWithGateway(gatewayReady)]
              /\ UNCHANGED cli
         ELSE /\ req' = [req EXCEPT ![r].pc = "awaitCLI", ![r].dispatch = "not ready",
                                       ![r].tries = Append(@, "B"),
                                       ![r].stages = Append(@, "Backend Dispatcher")]
              /\ cli' = [cli EXCEPT ![r] = processWithCLI(now)]
              /\ UNCHANGED gwc
  /\ UNCHANGED <<launchVars, apiKeyEnv, gatewayReady, gw, listening, uploadDir, outputDir, tmpFiles>>
  /\ UNCHANGED <<rateVars, dlVars>>

\* mutant: a gateway failure is answered at once, without the CLI fallback
AfterGateway_NoFallback(r) ==
  /\ req[r].pc = "awaitGateway"
  /\ gwc[r].promise.state \in {"resolved", "rejected"}
  /\ req' = [req EXCEPT ![r] =
       IF gwc[r].promise.state = "resolved"
         THEN Finished(r, SuccessResponse(r, gwc[r].promise.value, outputDir))
         ELSE Finished(r, ErrorJson(500, gwc[r].promise.value))]
  /\ UNCHANGED <<launchVars, apiKeyEnv, gatewayReady, gw, listening, gwc, cli, uploadDir, outputDir, tmpFiles>>
  /\ UNCHANGED <<rateVars, dlVars>>

\* result = await processWithGateway(...), with catch (gatewayErr) -> processWithCLI
AfterGateway(r) ==
  /\ req[r].pc = "awaitGateway"
  /\ gwc[r].promise.state \in {"resolved", "rejected"}
  /\ IF gwc[r].promise.state = "resolved"
       THEN /\ req' = [req EXCEPT ![r] =
                   Finished(r, SuccessResponse(r, gwc[r].promise.value, outputDir))]
            /\ UNCHANGED cli
       ELSE /\ req' = [req EXCEPT ![r].pc = "awaitCLI", ![r].tries = Append(@, "B")]
            /\ cli' = [cli EXCEPT ![r] = processWithCLI(now)]
  /\ UNCHANGED <<launchVars, apiKeyEnv, gatewayReady, gw, listening, gwc, uploadDir, outputDir, tmpFiles>>
  /\ UNCHANGED <<rateVars, dlVars>>

\* mutant: a failure of the CLI goes back to the gateway
AfterCLI_RetryGateway(r) ==
  /\ req[r].pc = "awaitCLI"
  /\ cli[r].promise.state \in {"resolved", "rejected"}
  /\ IF cli[r].promise.state = "resolved"
       THEN /\ req' = [req EXCEPT ![r] =
                   Finished(r, SuccessResponse(r, cli[r].promise.value, outputDir))]
            /\ UNCHANGED gwc
       ELSE /\ req' = [req EXCEPT ![r].pc = "awaitGateway", ![r].tries = Append(@, "A")]
            /\ gwc' = [gwc EXCEPT ![r] = processWithGateway(TRUE)]
  /\ UNCHANGED <<launchVars, apiKeyEnv, gatewayReady, gw, listening, cli, uploadDir, outputDir, tmpFiles>>
  /\ UNCHANGED <<rateVars, dlVars>>

\* result = await processWithCLI(...), with catch (error) -> 500
AfterCLI(r) ==
  /\ req[r].pc = "awaitCLI"
  /\ cli[r].promise.state \in {"resolved", "rejected"}
  /\ req' = [req EXCEPT ![r] =
       IF cli[r].promise.state = "resolved"
         THEN Finished(r, SuccessResponse(r, cli[r].promise.value, outputDir))
         ELSE Finished(r, ErrorJson(500, cli[r].promise.value))]
  /\ UNCHANGED <<launchVars, apiKeyEnv, gatewayReady, gw, listening, gwc, cli, uploadDir, outputDir, tmpFiles>>
  /\ UNCHANGED <<rateVars, dlVars>>

\* the deferred cleanup: fs.unlink(pdfPath, () => {})
CleanupPdf(r) ==
  /\ req[r].cleanup = "armed"
  /\ req' = [req EXCEPT ![r].cleanup = "done"]
  /\ uploadDir' = uploadDir \ {UniqueName(r)}
  /\ UNCHANGED <<launchVars, apiKeyEnv, gatewayReady, gw, listening, gwc, cli, outputDir, tmpFiles>>
  /\ UNCHANGED <<rateVars, dlVars>>

\* the external agent writes the CSV at the path the prompt names, at some
\* moment of a backend call
AgentWritesCsv(r) ==
  /\ req[r].pc \in {"awaitGateway", "awaitCLI", "awaitOpenClaw"}
  /\ OutputCsvName(UniqueName(r)) \notin outputDir
  /\ outputDir' = outputDir \cup {OutputCsvName(UniqueName(r))}
  /\ UNCHANGED <<launchVars, apiKeyEnv, gatewayReady, gw, listening, req, gwc, cli, uploadDir, tmpFiles>>
  /\ UNCHANGED <<rateVars, dlVars>>

\* ------------------------------- server.js of the launcher: processWithOpenClaw
\* messages of the gateway as server.js reads them: {type, payload: {content, done, message}}
ChatJson(type, content, done, message) ==
  [json |-> TRUE, type |-> type, content |-> content, done |-> done, message |-> message]
NotJson == [json |-> FALSE, type |-> "", content |-> Empty, done |-> FALSE, message |-> Empty]

OpenClawMessages ==
  { ChatJson("connected", Empty, FALSE, Empty),
    ChatJson("chat", <<"a">>, FALSE, Empty),
    ChatJson("chat", Empty, TRUE, Empty),
    ChatJson("chat", <<"b">>, TRUE, Empty),
    ChatJson("error", Empty, FALSE, <<"agent failed">>),
    ChatJson("error", Empty, FALSE, Empty),
    NotJson }

OcNone == [ws |-> "none", responseData |-> Empty, connected |-> FALSE, timeout |-> "none",
           promise |-> [state |-> "none", value |-> Empty],
           sent |-> << >>]     \* the envelopes written to the socket, by type

\* ws.send(data): the frame leaves only while the socket is open
WsSend(c, type) == IF c.ws = "open" THEN [c EXCEPT !.sent = Append(c.sent, type)] ELSE c

\* the body of processWithOpenClaw up to the registration of the handlers
processWithOpenClaw == [OcNone EXCEPT !.ws = "connecting", !.timeout = "armed", !.promise = Pending]

\* setTimeout(() => { ws.close(); reject(...) }, 300000)
OpenClawTimeoutFired(c) ==
  [c EXCEPT !.timeout = "fired",
            !.ws = WsCloseCall(c.ws),
            !.promise = Reject(c.promise, <<"Timeout waiting for OpenClaw response (5 minutes)">>)]

\* ws.on('open'): send the connect envelope with the token
OnOpenClawOpen(c) == WsSend([c EXCEPT !.ws = "open"], "connect")

\* ws.on('message'), the branch of type 'connected': send the chat.send envelope
OnConnected(c) == WsSend([c EXCEPT !.connected = TRUE], "chat.send")

\* ws.on('message'), the branch of type 'chat'
OnChat(c, msg) ==
  LET responseData == IF Truthy(msg.content) THEN c.responseData \o msg.content
                      ELSE c.responseData IN
  IF msg.done
    THEN [c EXCEPT !.responseData = responseData,
                   !.timeout = ClearTimeout(c.timeout),
                   !.ws = WsCloseCall(c.ws),
                   !.promise = Resolve(c.promise, responseData)]
    ELSE [c EXCEPT !.responseData = responseData]

\* ws.on('message'); text that is not JSON is logged and dropped
OnOpenClawMessage(c, msg) ==
  IF ~msg.json THEN c
  ELSE IF msg.type = "connected" THEN OnConnected(c)
  ELSE IF msg.type = "chat" THEN OnChat(c, msg)
  ELSE IF msg.type = "error"
    THEN [c EXCEPT !.timeout = ClearTimeout(c.timeout),
                   !.ws = WsCloseCall(c.ws),
                   !.promise = Reject(c.promise,
                                      IF Truthy(msg.message) THEN msg.message
                                      ELSE <<"Gateway error">>)]
  ELSE c

\* ws.on('error')
OnOpenClawError(c, err) ==
  [c EXCEPT !.ws = "errored",
            !.timeout = ClearTimeout(c.timeout),
            !.promise = Reject(c.promise, err)]

\* mutant: a close handler that clears the timer whether or not it rejects
OnOpenClawClose_ClearsTimer(c) ==
  IF ~c.connected
    THEN [c EXCEPT !.ws = "closed",
                   !.timeout = ClearTimeout(c.timeout),
                   !.promise = Reject(c.promise, <<"Failed to connect to OpenClaw Gateway">>)]
    ELSE [c EXCEPT !.ws = "closed", !.timeout = ClearTimeout(c.timeout)]

\* ws.on('close'): after the handshake the call is left to its timer
OnOpenClawClose(c) ==
  IF ~c.connected
    THEN [c EXCEPT !.ws = "closed",
                   !.timeout = ClearTimeout(c.timeout),
                   !.promise = Reject(c.promise, <<"Failed to connect to OpenClaw Gateway">>)]
    ELSE [c EXCEPT !.ws = "closed"]

OcUnchanged == UNCHANGED <<launcher, apiKeyEnv, gatewayReady, gw, listening, req, gwc, cli,
                           uploadDir, outputDir, tmpFiles>>

OpenClawTimeout(r) ==
  /\ oc[r].timeout = "armed"
  /\ oc' = [oc EXCEPT ![r] = OpenClawTimeoutFired(oc[r])]
  /\ OcUnchanged /\ UNCHANGED <<inbox, rateVars, dlVars>>

OpenClawOpen(r) ==
  /\ oc[r].ws = "connecting"
  /\ oc' = [oc EXCEPT ![r] = OnOpenClawOpen(oc[r])]
  /\ OcUnchanged /\ UNCHANGED <<inbox, rateVars, dlVars>>

OpenClawMessage(r) ==
  /\ oc[r].ws \in {"open", "closing"}
  /\ Len(inbox[r].msgs) < MaxMsgs
  /\ \E msg \in OpenClawMessages :
       /\ Len(OnOpenClawMessage(oc[r], msg).responseData) <= MaxFrags
       /\ oc' = [oc EXCEPT ![r] = OnOpenClawMessage(oc[r], msg)]
       /\ inbox' = [inbox EXCEPT ![r] = Logged(@, msg)]
  /\ OcUnchanged /\ UNCHANGED <<rateVars, dlVars>>

OpenClawError(r) ==
  /\ oc[r].ws \in {"connecting", "open", "closing", "aborted"}
  /\ LET err == IF oc[r].ws = "aborted"
                  THEN <<"WebSocket was closed before the connection was established">>
                  ELSE <<"connect ECONNREFUSED">> IN
     oc' = [oc EXCEPT ![r] = OnOpenClawError(oc[r], err)]
  /\ OcUnchanged /\ UNCHANGED <<inbox, rateVars, dlVars>>

OpenClawClose(r) ==
  /\ oc[r].ws \in {"open", "closing", "errored"}
  /\ oc' = [oc EXCEPT ![r] = OnOpenClawClose(oc[r])]
  /\ OcUnchanged /\ UNCHANGED <<inbox, rateVars, dlVars>>

\* the handler of server.js, which the launcher has loaded, up to its await
ServerHandler(r) ==
  /\ launcher.service = "running"
  /\ req[r].pc = "handler"
  /\ IF ~req[r].hasFile
       THEN /\ req' = [req EXCEPT ![r] =
                   [Respond(r, ErrorJson(400, <<"No PDF file uploaded">>)) EXCEPT !.pc = "done"]]
            /\ UNCHANGED oc
       ELSE /\ req' = [req EXCEPT ![r].pc = "awaitOpenClaw", ![r].tries = Append(@, "A"),
                                     ![r].stages = Append(@, "Backend Dispatcher")]
            /\ oc' = [oc EXCEPT ![r] = processWithOpenClaw]
  /\ UNCHANGED <<launcher, inbox, apiKeyEnv, gatewayReady, gw, listening, gwc, cli, uploadDir, outputDir, tmpFiles>>
  /\ UNCHANGED <<rateVars, dlVars>>

\* result = await processWithOpenClaw(...), with catch (error) -> 500, and finally
AfterOpenClaw(r) ==
  /\ req[r].pc = "awaitOpenClaw"
  /\ oc[r].promise.state \in {"resolved", "rejected"}
  /\ req' = [req EXCEPT ![r] =
       IF oc[r].promise.state = "resolved"
         THEN Finished(r, SuccessResponse(r, oc[r].promise.value, outputDir))
         ELSE Finished(r, ErrorJson(500, oc[r].promise.value))]
  /\ UNCHANGED <<launchVars, apiKeyEnv, gatewayReady, gw, listening, gwc, cli, uploadDir, outputDir, tmpFiles>>
  /\ UNCHANGED <<rateVars, dlVars>>

\* ------------------------------------------------ GET /api/download/:filename
\* names a client may ask for
TxtName   == <<"n", ".", "t", "x", "t">>
DotsCsv   == <<"x", ".", ".", "c", "s", "v">>
UpCsv     == DotDot \o <<"/">> \o OutputCsvName(UniqueName(1))
DownloadNames ==
  { OutputCsvName(UniqueName(1)), OutputCsvName(UniqueName(2)), TxtName, DotsCsv, DotDot, UpCsv }

\* files the external agent may have left in OUTPUT_DIR
AgentFiles == { OutputCsvName(UniqueName(1)), TxtName, DotsCsv }

\* mutant: a guard that looks at the extension only
InvalidFilename_ExtOnly(filename) == ~EndsWith(filename, DotCsv)

\* if (!filename.endsWith('.csv') || filename.includes('..'))
InvalidFilename(filename) == ~EndsWith(filename, DotCsv) \/ Includes(filename, DotDot)

\* fs.existsSync(path.join(OUTPUT_DIR, filename)): a file of the directory, or
\* the parent directory itself
CsvPathExists(files, filename) == filename \in files \/ filename = DotDot

DlIdle == [pc |-> "idle", filename |-> Empty, resp |-> << >>,
           existed |-> FALSE,   \* history: the name resolved to something when asked for
           ended |-> -1]        \* history: Date.now() when the transfer ended

\* the response of res.download once the transfer has ended
Streamed(ok) == Resp(IF ok THEN 200 ELSE 500, FALSE, Empty, Empty, Empty, FALSE, FALSE)

\* the handler up to res.download
Download(d) ==
  /\ dl[d].pc = "idle"
  /\ \A e \in DlIds : e < d => dl[e].pc # "idle"
  /\ \E filename \in DownloadNames :
       LET asked == [dl[d] EXCEPT !.filename = filename,
                                  !.existed = CsvPathExists(outputDir, filename)] IN
       dl' = [dl EXCEPT ![d] =
         IF InvalidFilename(filename)
           THEN [asked EXCEPT !.pc = "done",
                              !.resp = Append(@, ErrorJson(400, <<"Invalid filename">>))]
         ELSE IF ~CsvPathExists(outputDir, filename)
           THEN [asked EXCEPT !.pc = "done",
                              !.resp = Append(@, ErrorJson(404, <<"File not found">>))]
           ELSE [asked EXCEPT !.pc = "transfer"]]
  /\ UNCHANGED <<delTimers, rateVars, parseVars>>

\* mutant: a callback that schedules the deletion whatever the outcome
AfterTransfer_EvenOnError(timers, filename, ok, t) ==
  [timers EXCEPT ![filename] = Append(@, t + UNLINK_DELAY)]

\* (err) => { if (!err) setTimeout(() => fs.unlink(csvPath, ...), 300000) }: the
\* timers of a file, each with the time it is due
AfterTransfer(timers, filename, ok, t) ==
  IF ok THEN [timers EXCEPT ![filename] = Append(@, t + UNLINK_DELAY)] ELSE timers

\* the callback of res.download, at the end of the transfer
DownloadEnd(d) ==
  /\ dl[d].pc = "transfer"
  /\ \E ok \in BOOLEAN :
       /\ dl' = [dl EXCEPT ![d].pc = "done", ![d].resp = Append(@, Streamed(ok)),
                           ![d].ended = now]
       /\ delTimers' = AfterTransfer(delTimers, dl[d].filename, ok, now)
  /\ UNCHANGED <<rateVars, parseVars>>

\* a scheduled deletion runs when it is due: fs.unlink(csvPath, () => {})
DeleteCsv ==
  /\ \E filename \in DownloadNames :
       /\ delTimers[filename] # << >>
       /\ now >= Head(delTimers[filename])
       /\ delTimers' = [delTimers EXCEPT ![filename] = Tail(@)]
       /\ outputDir' = outputDir \ {filename}
  /\ UNCHANGED <<launchVars, apiKeyEnv, gatewayReady, gw, listening, req, gwc, cli, uploadDir, tmpFiles>>
  /\ UNCHANGED <<dl, rateVars>>

\* ------------------------------------------------------------ specifications
ParseIdle ==
  /\ launcher = LauncherNone
  /\ oc = [r \in ReqIds |-> OcNone]
  /\ inbox = [r \in ReqIds |-> NoInbox]
  /\ gatewayReady = FALSE
  /\ listening = FALSE
  /\ req = [r \in ReqIds |-> ReqIdle]
  /\ gwc = [r \in ReqIds |-> GwcNone]
  /\ cli = [r \in ReqIds |-> CliNone]
  /\ uploadDir = {}
  /\ outputDir = {}
  /\ tmpFiles = {}

DlNone ==
  /\ dl = [d \in DlIds |-> DlIdle]
  /\ delTimers = [filename \in DownloadNames |-> << >>]

RateIdle ==
  /\ now = 0
  /\ ticks = 0
  /\ rlCalls = [ip \in ClientIds |-> 0]
  /\ rlLast = NoCall
  /\ watch = NoWatch

\* the rate limiter on its own
RateInit ==
  /\ rateLimits = [ip \in ClientIds |-> NoRecord]
  /\ RateIdle
  /\ apiKeyEnv = ""
  /\ gw = startGateway
  /\ ParseIdle
  /\ DlNone

RateNext == RateCall \/ Tick

SpecRate == RateInit /\ [][RateNext]_vars

\* a window the service holds after RATE_LIMIT requests of one identity at time 0
FullWindow == [count |-> RATE_LIMIT, resetAt |-> RATE_WINDOW]

\* the service has been up: the first identity has no window yet, the second
\* has used its window up
ServedWindows == [ip \in ClientIds |-> IF ip = "ip1" THEN NoRecord ELSE FullWindow]

Init ==
  /\ rateLimits = ServedWindows
  /\ RateIdle
  /\ apiKeyEnv \in EnvKeys
  /\ gw \in Spawned
  /\ ParseIdle
  /\ DlNone

Next ==
  \/ GwData \/ GwError \/ GwClose \/ GwTimer \/ MainListen
  \/ \E r \in ReqIds :
       \/ Arrive(r) \/ validateApiKey(r) \/ RateGate(r) \/ MulterFilter(r) \/ MulterStore(r)
       \/ Handler(r) \/ AfterGateway(r) \/ AfterCLI(r) \/ CleanupPdf(r) \/ AgentWritesCsv(r)
       \/ GatewayTimeout(r) \/ WsOpen(r) \/ WsMessage(r) \/ WsError(r) \/ WsClose(r)
       \/ ProcExit(r) \/ CliTimeout(r) \/ CliClose(r) \/ CliError(r)

Spec == Init /\ [][Next]_vars

\* the download endpoint on its own, over what the agent has left in OUTPUT_DIR
DownloadInit ==
  /\ rateLimits = [ip \in ClientIds |-> NoRecord]
  /\ RateIdle
  /\ apiKeyEnv = ""
  /\ launcher = LauncherNone
  /\ oc = [r \in ReqIds |-> OcNone]
  /\ inbox = [r \in ReqIds |-> NoInbox]
  /\ gatewayReady = FALSE
  /\ gw = [StartRejected(startGateway, ExitedError(1, Empty), "exit") EXCEPT !.proc = "exited"]
  /\ listening = TRUE
  /\ req = [r \in ReqIds |-> ReqIdle]
  /\ gwc = [r \in ReqIds |-> GwcNone]
  /\ cli = [r \in ReqIds |-> CliNone]
  /\ uploadDir = {}
  /\ outputDir \in SUBSET AgentFiles
  /\ tmpFiles = {}
  /\ DlNone

DownloadNext == (\E d \in DlIds : Download(d) \/ DownloadEnd(d)) \/ DeleteCsv \/ Tick

SpecDownload == DownloadInit /\ [][DownloadNext]_vars

\* the call under observation in the specifications of the gateway calls
Observed == {1}

\* the integrated server is not part of the launcher's process
NoGateway == [startGateway EXCEPT !.proc = "none", !.timer = "none", !.startup = "none"]

\* the launcher script from its start, and the server it requires: server.js
\* shares the middleware chain and the cleanup, and has processWithOpenClaw as
\* its only strategy
LauncherInit ==
  /\ rateLimits = ServedWindows
  /\ RateIdle
  /\ apiKeyEnv = ""
  /\ launcher = Launcher
  /\ oc = [r \in ReqIds |-> OcNone]
  /\ inbox = [r \in ReqIds |-> IF r \in Observed THEN NewInbox ELSE NoInbox]
  /\ gatewayReady = FALSE
  /\ gw = NoGateway
  /\ listening = FALSE
  /\ req = [r \in ReqIds |-> ReqIdle]
  /\ gwc = [r \in ReqIds |-> GwcNone]
  /\ cli = [r \in ReqIds |-> CliNone]
  /\ uploadDir = {}
  /\ outputDir = {}
  /\ tmpFiles = {}
  /\ DlNone

LauncherNext ==
  \/ LaunchSpawned \/ LaunchError \/ LaunchGatewayExit \/ LaunchServer
  \/ \E r \in Observed :
       \/ Arrive(r) \/ validateApiKey(r) \/ RateGate(r) \/ MulterFilter(r) \/ MulterStore(r)
       \/ ServerHandler(r) \/ AfterOpenClaw(r) \/ CleanupPdf(r) \/ AgentWritesCsv(r)
       \/ OpenClawTimeout(r) \/ OpenClawOpen(r) \/ OpenClawMessage(r) \/ OpenClawError(r)
       \/ OpenClawClose(r)

SpecLauncher == LauncherInit /\ [][LauncherNext]_vars

\* the integrated server with one processWithGateway call in flight: the
\* gateway said 'listening', the server listens, and the first request of ip1
\* has passed the chain and was dispatched with gatewayReady true
GatewayCallInit ==
  /\ rateLimits = [ServedWindows EXCEPT !["ip1"] = [count |-> 1, resetAt |-> RATE_WINDOW]]
  /\ RateIdle
  /\ apiKeyEnv = ""
  /\ launcher = LauncherNone
  /\ oc = [r \in ReqIds |-> OcNone]
  /\ inbox = [r \in ReqIds |-> IF r \in Observed THEN NewInbox ELSE NoInbox]
  /\ gatewayReady = TRUE
  /\ gw = StartResolved([startGateway EXCEPT !.startupOutput = <<"gateway ", "listening">>],
                        "output")
  /\ listening = TRUE
  /\ req = [r \in ReqIds |->
              IF r \in Observed
                THEN [ReqIdle EXCEPT !.pc = "awaitGateway", !.ip = "ip1", !.key = "secret",
                                     !.file = [mimetype |-> PdfType, size |-> 1],
                                     !.hasFile = TRUE, !.quota = RATE_LIMIT,
                                     !.dispatch = "ready", !.tries = <<"A">>,
                                     !.stages = <<"Rate Limiter", "Upload Handler",
                                                  "Backend Dispatcher">>]
                ELSE ReqIdle]
  /\ gwc = [r \in ReqIds |-> IF r \in Observed THEN processWithGateway(TRUE) ELSE GwcNone]
  /\ cli = [r \in ReqIds |-> CliNone]
  /\ uploadDir = {UniqueName(r) : r \in Observed}
  /\ outputDir = {}
  /\ tmpFiles = {}
  /\ DlNone

GatewayCallNext ==
  \E r \in Observed :
    GatewayTimeout(r) \/ WsOpen(r) \/ WsMessage(r) \/ WsError(r) \/ WsClose(r)

\* Strategy A in both programs: processWithGateway of the integrated server,
\* and processWithOpenClaw behind the launcher
SpecGatewayCalls == (GatewayCallInit \/ LauncherInit) /\ [][GatewayCallNext \/ LauncherNext]_vars

\* the integrated server while it serves: the start of the gateway has
\* settled, by a 'listening' chunk or by the exit of the process
ServingGateways ==
  { StartResolved([startGateway EXCEPT !.startupOutput = <<"gateway ", "listening">>], "output"),
    [StartRejected(startGateway, ExitedError(1, Empty), "exit") EXCEPT !.proc = "exited"] }

ServingInit ==
  /\ rateLimits = ServedWindows
  /\ RateIdle
  /\ apiKeyEnv = ""
  /\ launcher = LauncherNone
  /\ oc = [r \in ReqIds |-> OcNone]
  /\ inbox = [r \in ReqIds |-> NoInbox]
  /\ gw \in ServingGateways
  /\ gatewayReady = (gw.startup = "resolved")
  /\ listening = TRUE
  /\ req = [r \in ReqIds |-> ReqIdle]
  /\ gwc = [r \in ReqIds |-> GwcNone]
  /\ cli = [r \in ReqIds |-> CliNone]
  /\ uploadDir = {}
  /\ outputDir = {}
  /\ tmpFiles = {}
  /\ DlNone

\* one parse request of the integrated server, and the exit of the gateway
ServingNext ==
  \/ GwClose
  \/ \E r \in Observed :
       \/ Arrive(r) \/ validateApiKey(r) \/ RateGate(r) \/ MulterFilter(r) \/ MulterStore(r)
       \/ Handler(r) \/ AfterGateway(r) \/ AfterCLI(r) \/ CleanupPdf(r) \/ AgentWritesCsv(r)
       \/ GatewayTimeout(r) \/ WsOpen(r) \/ WsMessage(r) \/ WsError(r) \/ WsClose(r)
       \/ ProcExit(r) \/ CliTimeout(r) \/ CliClose(r) \/ CliError(r)

\* what the event loop of Node guarantees: a handler that was reached runs, the
\* continuation of a settled promise runs, and a timer that is armed fires.
\* Nothing is assumed of the gateway, the socket, the subprocess or the agent.
Scheduled(r) ==
  /\ WF_vars(Handler(r)) /\ WF_vars(AfterGateway(r)) /\ WF_vars(AfterCLI(r))
  /\ WF_vars(GatewayTimeout(r)) /\ WF_vars(CliTimeout(r)) /\ WF_vars(CleanupPdf(r))
  /\ WF_vars(ServerHandler(r)) /\ WF_vars(AfterOpenClaw(r)) /\ WF_vars(OpenClawTimeout(r))

\* both programs serving one parse request, under the scheduling of Node
SpecServing ==
  /\ ServingInit \/ LauncherInit
  /\ [][ServingNext \/ LauncherNext]_vars
  /\ \A r \in Observed : Scheduled(r)



\* ------------------------------------------ the limiter over several windows
MaxSpan == 4           \* clock advances explored by the several-windows specification
Watching == "ip1"
WatchFrom == {0, 1, RATE_WINDOW}

\* the rate limiter under the calls of one identity, long enough for three of
\* its windows, with the calls returning true counted inside one interval
WindowsInit ==
  /\ rateLimits = [ip \in ClientIds |-> NoRecord]
  /\ now = 0
  /\ ticks = 0
  /\ rlCalls = [ip \in ClientIds |-> 0]
  /\ rlLast = NoCall
  /\ \E from \in WatchFrom : watch = [ip |-> Watching, from |-> from, n |-> 0]
  /\ apiKeyEnv = ""
  /\ gw = startGateway
  /\ ParseIdle
  /\ DlNone

WindowsNext == CallCheckRateLimit(Watching) \/ Advance(MaxSpan)

SpecWindows == WindowsInit /\ [][WindowsNext]_vars

\* -------------------------------------- the supervisor and the dispatcher
\* the integrated server from its start, with the end of the gateway process
\* and its 'close' event told apart, and one parse request up to its dispatch
SupervisorNext ==
  \/ GwData \/ GwError \/ GwExit \/ GwClose \/ GwTimer \/ MainListen
  \/ \E r \in Observed :
       \/ Arrive(r) \/ validateApiKey(r) \/ RateGate(r) \/ MulterFilter(r) \/ MulterStore(r)
       \/ Handler(r)

SpecSupervisor == Init /\ [][SupervisorNext]_vars

\* ------------------------------------------- concurrent Strategy B calls
MaxCalls == 2          \* parse requests in flight in the concurrent-calls specification
CallIds == 1 .. MaxCalls

\* a request whose upload is stored and whose handler is about to run
Uploaded == [ReqIdle EXCEPT !.pc = "handler", !.ip = "ip1", !.key = "secret",
                            !.file = [mimetype |-> PdfType, size |-> 1], !.hasFile = TRUE,
                            !.stages = <<"Rate Limiter", "Upload Handler">>]

\* the integrated server after its gateway has exited: requests of one client
\* have passed the chain, and their handlers run as the event loop reaches them
CliCallsInit ==
  /\ rateLimits = [ServedWindows EXCEPT
                     !["ip1"] = [count |-> MaxCalls, resetAt |-> RATE_WINDOW]]
  /\ RateIdle
  /\ apiKeyEnv = ""
  /\ launcher = LauncherNone
  /\ oc = [r \in CallIds |-> OcNone]
  /\ inbox = [r \in CallIds |-> NoInbox]
  /\ gatewayReady = FALSE
  /\ gw = [StartRejected(startGateway, ExitedError(1, Empty), "exit") EXCEPT !.proc = "exited"]
  /\ listening = TRUE
  /\ req = [r \in CallIds |-> [Uploaded EXCEPT !.quota = RATE_LIMIT - (r - 1)]]
  /\ gwc = [r \in CallIds |-> GwcNone]
  /\ cli = [r \in CallIds |-> CliNone]
  /\ uploadDir = {UniqueName(r) : r \in CallIds}
  /\ outputDir = {}
  /\ tmpFiles = {}
  /\ DlNone

CliCallsNext ==
  \/ Tick
  \/ \E r \in CallIds :
       \/ Handler(r) \/ AfterCLI(r)
       \/ ProcExit(r) \/ CliTimeout(r) \/ CliClose(r) \/ CliError(r)

SpecCliCalls == CliCallsInit /\ [][CliCallsNext]_vars

\* ------------------------------------------------------------------ claims
\* the output CSV of request r, as the contract names it
CsvOf(r) == UniqueStem(r) \o <<"_", "p", "a", "r", "s", "e", "d", ".", "c", "s", "v">>
UrlOf(r) == <<"/api/download/">> \o CsvOf(r)
GatewayFailed(r) == gwc[r].promise.state = "rejected"
CliFailed(r) == cli[r].promise.state = "rejected"
Answered(r) == req[r].pc = "done"

\* C1: for every identity, whatever the other identities do, calls 1..100 of a
\* window (made while now <= resetAt) return true, call 101 of that window
\* returns false, and the first call after the window has elapsed returns true
\* with the counter restarted at 1.
C1_WindowCeiling ==
  rlLast.ip \in ClientIds =>
    /\ (rlLast.nth <= RATE_LIMIT => rlLast.ok)
    /\ (rlLast.nth = RATE_LIMIT + 1 => ~rlLast.ok)
    /\ (rlLast.nth = 1 => rlLast.ok /\ rateLimits[rlLast.ip].count = 1)

\* C1 witness: call 101 of a window is refused at the very end of the window
\* (now = resetAt), while the other identity is in a window of its own.
C1_Witness ==
  /\ rlLast.ip \in ClientIds
  /\ rlLast.nth = RATE_LIMIT + 1
  /\ ~rlLast.ok
  /\ now = rateLimits[rlLast.ip].resetAt
  /\ \E other \in ClientIds \ {rlLast.ip} : rateLimits[other] # NoRecord

\* C2: when Strategy A fails, whatever the reason, Strategy B is started before
\* the request is answered; and when Strategy B fails too, the single response
\* is a 500 whose error is Strategy B's message, not Strategy A's.
C2_FallbackBeforeResponse ==
  \A r \in ReqIds :
    GatewayFailed(r) =>
      /\ (req[r].resp # << >> => cli[r].proc # "none")
      /\ (Answered(r) /\ CliFailed(r) =>
            /\ req[r].resp = <<ErrorJson(500, cli[r].promise.value)>>
            /\ req[r].resp[1].error # gwc[r].promise.value)

\* C2 witness: both strategies have failed and the request is answered.
C2_Witness ==
  \E r \in ReqIds :
    /\ GatewayFailed(r) /\ CliFailed(r) /\ Answered(r)
    /\ gwc[r].promise.value = <<"agent failed">>
    /\ req[r].resp[1].status = 500

\* C3: Strategy B resolves with {success: true, message: stdout} exactly when
\* the captured exit status is zero, and rejects, carrying stderr (stdout when
\* stderr is empty), for every other exit status.
C3_ExitStatusDecides ==
  \A r \in ReqIds :
    (cli[r].proc = "closed" /\ cli[r].outcome # NoOutcome /\ cli[r].timeout # "fired") =>
      IF cli[r].outcome.status = 0
        THEN cli[r].promise = [state |-> "resolved", value |-> cli[r].outcome.out]
        ELSE /\ cli[r].promise.state = "rejected"
             /\ EndsWith(cli[r].promise.value,
                         IF Truthy(cli[r].outcome.err) THEN cli[r].outcome.err
                         ELSE cli[r].outcome.out)

\* C4: when the output CSV of a request is on disk after the backend call, the
\* request is answered with success and a downloadUrl, whatever the backend
\* reported.
C4_ExistenceWins ==
  \A r \in ReqIds :
    (Answered(r) /\ req[r].cleanup # "none" /\ CsvOf(r) \in outputDir) =>
      /\ Len(req[r].resp) = 1
      /\ req[r].resp[1].success
      /\ req[r].resp[1].downloadUrl = UrlOf(r)

\* C5: a configured key that does not match gives 401, an exhausted window 429,
\* no attached file 400, a failure of the last attempted strategy 500 with its
\* message; every request gets exactly one response, which is one of these or
\* a success.
C5_StatusMapping ==
  \A r \in ReqIds :
    Answered(r) =>
      LET keyBad  == apiKeyEnv # "" /\ req[r].key # apiKeyEnv
          limited == ~keyBad /\ req[r].quota = 0
          noFile  == ~keyBad /\ ~limited /\ req[r].file = NoFile
          failed  == CliFailed(r)
          a       == req[r].resp[1] IN
      /\ Len(req[r].resp) = 1
      /\ (keyBad  <=> a.status = 401)
      /\ (limited <=> a.status = 429)
      /\ (noFile  <=> a.status = 400)
      /\ (failed  <=> a.status = 500)
      /\ (failed  => a.json /\ a.error = cli[r].promise.value)
      /\ (a.status \in {401, 429, 400, 500} \/ a.success)

\* C6: every success:true response carries a downloadUrl naming the output CSV
\* of its request.
C6_SuccessHasUrl ==
  \A r \in ReqIds :
    \A i \in DOMAIN req[r].resp :
      req[r].resp[i].success => req[r].resp[i].downloadUrl = UrlOf(r)

\* C6 as amended: a success:true response carries the downloadUrl of its
\* request's output CSV exactly when that file is on disk when the response is
\* built; otherwise it carries the backend's message and a note, and no
\* downloadUrl.
C6_SuccessUrlIffFile ==
  \A r \in ReqIds :
    \A i \in DOMAIN req[r].resp :
      req[r].resp[i].success =>
        IF CsvOf(r) \in outputDir
          THEN req[r].resp[i].downloadUrl = UrlOf(r) /\ ~req[r].resp[i].note
          ELSE /\ req[r].resp[i].downloadUrl = Empty
               /\ req[r].resp[i].note
               /\ req[r].resp[i].message =
                    IF cli[r].promise.state = "resolved" THEN cli[r].promise.value
                    ELSE gwc[r].promise.value

\* C6 witness: a strategy has resolved, the CSV is missing, and the request is
\* answered with success.
C6_Witness ==
  \E r \in ReqIds :
    /\ Answered(r)
    /\ req[r].resp[1].success
    /\ CsvOf(r) \notin outputDir
    /\ gwc[r].promise.state = "resolved"

\* C7: a download name that contains '..' or does not end in '.csv' is answered
\* 400 whether or not it resolves to something that exists; 404 is only given
\* to names that pass the guard.
C7_DownloadGuard ==
  \A d \in DlIds :
    dl[d].pc # "idle" =>
      LET bad == Includes(dl[d].filename, <<".", ".">>)
                   \/ ~EndsWith(dl[d].filename, <<".", "c", "s", "v">>) IN
      /\ bad => dl[d].pc = "done" /\ dl[d].resp = <<ErrorJson(400, <<"Invalid filename">>)>>
      /\ (dl[d].resp # << >> /\ dl[d].resp[1].status = 404) => ~bad /\ ~dl[d].existed

\* C7 witness: a name with '..' that ends in '.csv' and names an existing file
\* has been refused.
C7_Witness ==
  \E d \in DlIds :
    /\ dl[d].pc = "done"
    /\ dl[d].filename = DotsCsv
    /\ dl[d].existed
    /\ dl[d].resp[1].status = 400

\* C8: when the 5-minute timer of a backend call fires, the call fails with the
\* timeout error and stays failed, and the connection is being closed
\* (Strategy A) or the subprocess no longer runs (Strategy B), partial content
\* or not.
C8_TimeoutFails ==
  \A r \in ReqIds :
    /\ gwc[r].timeout = "fired" =>
         /\ gwc[r].promise = [state |-> "rejected", value |-> <<"Gateway timeout">>]
         /\ gwc[r].ws \in {"closing", "aborted", "errored", "closed"}
    /\ cli[r].timeout = "fired" =>
         /\ cli[r].promise = [state |-> "rejected",
                              value |-> <<"Timeout waiting for OpenClaw response (5 minutes)">>]
         /\ cli[r].proc # "running"

\* C8 witness: the timer fired on a call that held partial content, and the
\* connection has closed since.
C8_Witness ==
  \E r \in ReqIds :
    /\ gwc[r].timeout = "fired"
    /\ Truthy(gwc[r].fullResponse)
    /\ gwc[r].ws = "closed"
    /\ cli[r].timeout = "fired"

\* C9: an upload that is not application/pdf, an upload over 50 MiB and an
\* invalid download name are answered with a 4xx status and the validation
\* message.
C9_Validation4xx ==
  /\ \A r \in ReqIds :
       (Answered(r) /\ req[r].quota > 0 /\ req[r].file # NoFile
          /\ (req[r].file.mimetype # "application/pdf" \/ req[r].file.size > 50 * 1024 * 1024)) =>
         /\ Len(req[r].resp) = 1
         /\ req[r].resp[1].status \in 400 .. 499
         /\ req[r].resp[1].error =
              IF req[r].file.mimetype # "application/pdf"
                THEN <<"Only PDF files allowed">> ELSE <<"File too large">>
  /\ \A d \in DlIds :
       (dl[d].pc = "done"
          /\ (Includes(dl[d].filename, <<".", ".">>)
                \/ ~EndsWith(dl[d].filename, <<".", "c", "s", "v">>))) =>
         /\ dl[d].resp[1].status \in 400 .. 499
         /\ dl[d].resp[1].error = <<"Invalid filename">>

\* C10: an upload whose content-type is not application/pdf is refused, is at
\* no moment a file of the upload directory, and starts no backend call.
C10_NonPdfNeverStored ==
  \A r \in ReqIds :
    (req[r].file # NoFile /\ req[r].file.mimetype # "application/pdf") =>
      /\ UniqueName(r) \notin uploadDir
      /\ gwc[r] = GwcNone
      /\ cli[r] = CliNone
      /\ req[r].pc \notin {"storing", "handler", "awaitGateway", "awaitCLI"}
      /\ Answered(r) => Len(req[r].resp) = 1 /\ ~req[r].resp[1].success
                          /\ req[r].resp[1].status >= 400

\* C10 witness: a text/plain upload got past the key and the rate gate and has
\* been refused by the filter.
C10_Witness ==
  \E r \in ReqIds :
    /\ Answered(r)
    /\ req[r].file.mimetype = "text/plain"
    /\ req[r].quota > 0

\* C11: a failure of the gateway process to launch (a spawn error, or an exit
\* before readiness) never ends the service: the process keeps running, and
\* once the start has been rejected gatewayReady stays false and every parse
\* request is served by Strategy B alone, without a WebSocket.
C11_LaunchFailureKeepsService ==
  /\ launcher.proc = "failed" => launcher.service = "running"
  /\ gw.startup = "rejected" =>
       /\ ~gatewayReady
       /\ \A r \in ReqIds :
            /\ gwc[r] = GwcNone
            /\ req[r].tries \in {<< >>, <<"B">>}

\* the backend call of request r has settled for good: the last strategy
\* started for it has resolved or rejected, and no other strategy follows
BackendSettled(r) ==
  \/ gwc[r].promise.state = "resolved"
  \/ cli[r].promise.state \in {"resolved", "rejected"}
  \/ oc[r].promise.state \in {"resolved", "rejected"}

\* the PDF of request r was stored and the handler has taken it over
HandedOver(r) == req[r].hasFile /\ req[r].pc \notin {"idle", "validateApiKey", "rateGate", "upload", "storing"}

\* C12: every uploaded PDF that was stored and handed to the dispatcher is
\* eventually deleted by the deferred cleanup, after a success and after a
\* failure alike, and it is neither scheduled for deletion nor deleted before
\* the backend call for that upload has settled.
C12_UploadCleanedUp ==
  /\ [](\A r \in ReqIds :
          /\ req[r].cleanup # "none" => BackendSettled(r)
          /\ (HandedOver(r) /\ (UniqueStem(r) \o <<".", "p", "d", "f">>) \notin uploadDir) =>
               req[r].cleanup = "done")
  /\ \A r \in ReqIds :
       HandedOver(r) ~> (req[r].cleanup = "done"
                           /\ (UniqueStem(r) \o <<".", "p", "d", "f">>) \notin uploadDir)

\* C12 witness: the PDF has been deleted after both strategies failed.
C12_Witness ==
  \E r \in ReqIds :
    /\ HandedOver(r)
    /\ req[r].cleanup = "done"
    /\ (UniqueStem(r) \o <<".", "p", "d", "f">>) \notin uploadDir
    /\ GatewayFailed(r) /\ CliFailed(r)
    /\ req[r].resp[1].status = 500

\* C13: in every reachable state the counter of every identity that has a
\* window lies between 0 and 100, and a call of checkRateLimit that returns
\* false leaves the counter and the reset time of its identity as they were.
C13_CounterBounded ==
  /\ [](\A ip \in ClientIds : rateLimits[ip] # NoRecord => rateLimits[ip].count \in 0 .. 100)
  /\ [][(rlCalls' # rlCalls /\ ~rlLast'.ok) =>
          /\ rateLimits'[rlLast'.ip].count = rateLimits[rlLast'.ip].count
          /\ rateLimits'[rlLast'.ip].resetAt = rateLimits[rlLast'.ip].resetAt]_vars

\* C13 witness: a second call in a row has been rejected, later than the
\* first millisecond of the window, with the counter at the ceiling.
C13_Witness ==
  /\ rlLast.ip \in ClientIds
  /\ ~rlLast.ok
  /\ rlLast.nth = RATE_LIMIT + 2
  /\ now > 0
  /\ rateLimits[rlLast.ip].count = 100

\* C14: Strategy A is started for a request only when gatewayReady is true at
\* the moment the handler dispatches it; a request dispatched while
\* gatewayReady is false goes to Strategy B at once, and no processWithGateway
\* call, hence no WebSocket, is ever made for it.
C14_GatewayOnlyWhenReady ==
  /\ [](\A r \in ReqIds :
          /\ (gwc[r] # GwcNone \/ (req[r].tries # << >> /\ Head(req[r].tries) = "A")) =>
               req[r].dispatch = "ready"
          /\ req[r].dispatch = "not ready" =>
               /\ Head(req[r].tries) = "B"
               /\ cli[r].proc # "none"
               /\ gwc[r].ws = "none" /\ gwc[r].promise.state = "none")
  /\ [][\A r \in ReqIds :
          /\ (gwc[r].promise.state = "none" /\ gwc'[r].promise.state # "none") => gatewayReady
          /\ (req[r].pc = "handler" /\ req'[r].pc = "awaitCLI") => ~gatewayReady]_vars

\* C14 witness: the gateway had become ready and then exited; a request
\* dispatched after that went to Strategy B alone and has been answered.
C14_Witness ==
  \E r \in ReqIds :
    /\ req[r].dispatch = "not ready"
    /\ gw.how = "output" /\ gw.proc = "exited"
    /\ req[r].tries = <<"B">>
    /\ gwc[r] = GwcNone
    /\ Answered(r)

\* C15: a parse request starts at most two backend calls, at most one of each
\* strategy and Strategy B last; once Strategy B has been started no further
\* call is started for the request, and when Strategy B fails the request is
\* answered with an error.
C15_AtMostTwoAttempts ==
  /\ [](\A r \in ReqIds :
          /\ req[r].tries \in {<< >>, <<"A">>, <<"B">>, <<"A", "B">>}
          /\ (cli[r].promise.state = "rejected" /\ req[r].pc = "done") =>
               /\ Len(req[r].resp) = 1
               /\ req[r].resp[1].status = 500
               /\ ~req[r].resp[1].success
               /\ req[r].resp[1].error # << >>)
  /\ [][\A r \in ReqIds :
          cli[r].proc # "none" =>
            /\ req'[r].tries = req[r].tries
            /\ gwc'[r].promise.state = "none" <=> gwc[r].promise.state = "none"
            /\ cli'[r].ts = cli[r].ts]_vars

\* C15 witness: the gateway call was rejected by an error message, the CLI
\* was killed by its timer, and the request has its answer.
C15_Witness ==
  \E r \in ReqIds :
    /\ req[r].tries = <<"A", "B">>
    /\ gwc[r].messageReceived /\ gwc[r].promise.state = "rejected"
    /\ cli[r].timeout = "fired"
    /\ req[r].pc = "done"

\* a chunk with one of the three words has been captured
HeardReady == \E w \in {"listening", "ready", "started"} : Includes(gw.startupOutput, <<w>>)

RECURSIVE Flatten(_)
Flatten(texts) == IF texts = << >> THEN << >> ELSE Head(texts) \o Flatten(Tail(texts))

\* the messages a call of either program has received, and what settled it
Received(r) == inbox[r].msgs
CallOf(r) ==
  IF gwc[r].promise.state # "none"
    THEN [buffer |-> gwc[r].fullResponse, promise |-> gwc[r].promise, timeout |-> gwc[r].timeout]
    ELSE [buffer |-> oc[r].responseData, promise |-> oc[r].promise, timeout |-> oc[r].timeout]
ByGateway(r) == gwc[r].promise.state # "none"
ByOpenClaw(r) == oc[r].promise.state # "none"

\* the type tags of the contract, whatever the program: a terminal message, an
\* error message, and the content a message tagged as a fragment carries
IsDone(r, m) ==
  m.json /\ IF ByGateway(r) THEN m.type \in {"done", "complete", "end"}
            ELSE m.type = "chat" /\ m.done
IsErrorMsg(m) == m.json /\ m.type = "error"
TaggedContent(r, m) ==
  IF ~m.json THEN << >>
  ELSE IF ByGateway(r)
    THEN IF m.type \in {"content", "text"}
           THEN (IF m.content # << >> THEN m.content ELSE m.text)
           ELSE << >>
    ELSE IF m.type = "chat" THEN m.content ELSE << >>
Carried(r, m) ==
  IF ByGateway(r)
    THEN (IF m.error # << >> THEN m.error
          ELSE IF m.message # << >> THEN m.message ELSE <<"Gateway error">>)
    ELSE (IF m.message # << >> THEN m.message ELSE <<"Gateway error">>)

\* the position of the first terminal or error message, 0 when there is none
FirstDecisive(r) ==
  LET msgs == Received(r)
      hit(i) == IsDone(r, msgs[i]) \/ IsErrorMsg(msgs[i]) IN
  IF \E i \in 1 .. Len(msgs) : hit(i)
    THEN CHOOSE i \in 1 .. Len(msgs) : hit(i) /\ \A j \in 1 .. (i - 1) : ~hit(j)
    ELSE 0

\* the tagged fragments among the first n messages, concatenated in arrival order
TaggedUpTo(r, n) == Flatten([i \in 1 .. n |-> TaggedContent(r, Received(r)[i])])

\* what the program appends for a message: the tagged content, and in
\* processWithGateway the text of a message that is not JSON as well
Appended(r, m) == IF ByGateway(r) /\ ~m.json THEN m.raw ELSE TaggedContent(r, m)
AppendedUpTo(r, n) == Flatten([i \in 1 .. n |-> Appended(r, Received(r)[i])])

\* C17: in Strategy A, for every sequence of incoming messages, the buffer is
\* the concatenation of the content fragments in arrival order, the first
\* terminal done/complete message resolves the call with exactly the
\* concatenation of the fragments received before it, and an error message
\* that comes before any terminal message rejects the call with the message it
\* carries.
C17_FragmentsThenTerminal ==
  \A r \in ReqIds :
    (inbox[r].kept /\ (ByGateway(r) \/ ByOpenClaw(r)) /\ CallOf(r).timeout # "fired") =>
      LET k == FirstDecisive(r) IN
      /\ CallOf(r).buffer = TaggedUpTo(r, Len(Received(r)))
      /\ k > 0 =>
           IF IsDone(r, Received(r)[k])
             THEN CallOf(r).promise = [state |-> "resolved", value |-> TaggedUpTo(r, k - 1)]
             ELSE CallOf(r).promise = [state |-> "rejected",
                                       value |-> Carried(r, Received(r)[k])]

\* C17 as amended: as long as the 5-minute timer has not fired, the buffer is
\* the concatenation, in arrival order, of what the program appends: the
\* content of every message tagged as a fragment, and in processWithGateway
\* also the text of every message that is not JSON.  The first terminal
\* message resolves the call with the buffer of that moment, which in
\* processWithOpenClaw includes the content the terminal message itself
\* carries; an error message before any terminal message rejects the call with
\* the message it carries, or with 'Gateway error' when it carries none.
C17_AppendedThenTerminal ==
  \A r \in ReqIds :
    (inbox[r].kept /\ (ByGateway(r) \/ ByOpenClaw(r)) /\ CallOf(r).timeout # "fired") =>
      LET k == FirstDecisive(r) IN
      /\ CallOf(r).buffer = AppendedUpTo(r, Len(Received(r)))
      /\ k > 0 =>
           IF IsDone(r, Received(r)[k])
             THEN CallOf(r).promise =
                    [state |-> "resolved",
                     value |-> AppendedUpTo(r, IF ByGateway(r) THEN k - 1 ELSE k)]
             ELSE CallOf(r).promise = [state |-> "rejected",
                                       value |-> Carried(r, Received(r)[k])]

\* C17 witness: processWithGateway received a fragment, a text that is not
\* JSON and a terminal message, and resolved with both texts in that order.
C17_Witness ==
  \E r \in ReqIds :
    /\ ByGateway(r)
    /\ Len(Received(r)) = 3
    /\ Received(r)[1].type = "content"
    /\ ~Received(r)[2].json
    /\ Received(r)[3].type = "complete"
    /\ gwc[r].promise = [state |-> "resolved", value |-> <<"a", "raw">>]

\* C18: when the connection of a Strategy A call closes while it is open, that
\* is before any terminal (done or error) message has arrived and before the
\* timer or a socket error has ended the call, the call fails if the buffer
\* is empty and resolves with the buffer if it holds partial content.
C18_CloseBeforeTerminal ==
  [][\A r \in ReqIds :
       /\ (gwc[r].ws = "open" /\ gwc'[r].ws = "closed") =>
            IF gwc[r].fullResponse = << >>
              THEN gwc'[r].promise.state = "rejected"
              ELSE gwc'[r].promise = [state |-> "resolved", value |-> gwc[r].fullResponse]
       /\ (oc[r].ws = "open" /\ oc'[r].ws = "closed") =>
            IF oc[r].responseData = << >>
              THEN oc'[r].promise.state = "rejected"
              ELSE oc'[r].promise = [state |-> "resolved", value |-> oc[r].responseData]]_vars

\* C19: in every Strategy A call the handshake that carries the auth token
\* comes before the request envelope, and no call sends more than one request
\* envelope, whatever the gateway sends: processWithOpenClaw writes the
\* connect envelope and then at most one chat.send envelope, and
\* processWithGateway, whose token travels in the header of the opening
\* handshake, writes at most one message envelope, on an opened socket.
C19_OneEnvelopeAfterHandshake ==
  \A r \in ReqIds :
    /\ oc[r].sent \in {<< >>, <<"connect">>, <<"connect", "chat.send">>}
    /\ gwc[r].sent \in {0, 1}
    /\ gwc[r].sent = 1 => gwc[r].ws \notin {"none", "connecting", "aborted"}

\* a download of a name that passes the guard
ValidName(filename) ==
  EndsWith(filename, <<".", "c", "s", "v">>) /\ ~Includes(filename, <<".", ".">>)

\* C20: a download of a valid name that has no file is answered 404; a
\* transfer that ends without error schedules one deletion of the file, due 5
\* minutes after its end, whatever other downloads of the file are in progress
\* and whatever deletions are already scheduled; a transfer that ends with an
\* error schedules none; a file is deleted only when such a deletion is due,
\* and from then on every download of its name is answered 404.
C20_DownloadThenDelete ==
  /\ [](\A d \in DlIds :
          /\ (dl[d].pc # "idle" /\ ValidName(dl[d].filename) /\ ~dl[d].existed) =>
               dl[d].pc = "done" /\ dl[d].resp = <<ErrorJson(404, <<"File not found">>)>>
          /\ (dl[d].existed /\ ValidName(dl[d].filename) /\ dl[d].filename \notin outputDir) =>
               \E e \in DlIds :
                 /\ dl[e].filename = dl[d].filename
                 /\ dl[e].resp # << >> /\ dl[e].resp[1].status = 200
                 /\ now >= dl[e].ended + 300000)
  /\ [][/\ \A d \in DlIds :
             (dl[d].pc = "transfer" /\ dl'[d].pc = "done") =>
               LET f == dl[d].filename IN
               IF dl'[d].resp[1].status = 200
                 THEN delTimers' = [delTimers EXCEPT ![f] = Append(@, now + 300000)]
                 ELSE delTimers' = delTimers
        /\ outputDir' \subseteq outputDir]_vars

\* C20 witness: two downloads of one file overlapped and both ended well, so
\* that a second deletion was scheduled while the first was pending; the file
\* has been deleted since.
C20_Witness ==
  \E d, e \in DlIds :
    /\ d # e
    /\ dl[d].filename = dl[e].filename
    /\ dl[d].existed /\ dl[e].existed
    /\ dl[d].resp # << >> /\ dl[d].resp[1].status = 200
    /\ dl[e].resp # << >> /\ dl[e].resp[1].status = 200
    /\ dl[d].filename \notin outputDir
    /\ delTimers[dl[d].filename] # << >>

\* ------------------------------------------------------------------ C21
IsPrefix(s, t) == Len(s) <= Len(t) /\ SubSeq(t, 1, Len(s)) = s

\* C21: on the parse request path the Upload Handler takes the request before
\* the Rate Limiter gate is consulted: the components take a request in the
\* order Upload Handler, Rate Limiter gate, Backend Dispatcher.
C21_UploadBeforeGate ==
  \A r \in ReqIds :
    IsPrefix(req[r].stages, <<"Upload Handler", "Rate Limiter", "Backend Dispatcher">>)

\* C21 as amended: the Rate Limiter gate is consulted first, the Upload Handler
\* takes only a request the gate has let through, and the Backend Dispatcher
\* only one the Upload Handler has stored; a request the gate rejects (429)
\* leaves no file in the upload directory.
C21_GateBeforeUpload ==
  \A r \in ReqIds :
    /\ IsPrefix(req[r].stages, <<"Rate Limiter", "Upload Handler", "Backend Dispatcher">>)
    /\ (req[r].resp # << >> /\ req[r].resp[1].status = 429) =>
         req[r].stages = <<"Rate Limiter">> /\ UniqueName(r) \notin uploadDir

\* C21 witness: a request has gone through the gate, the upload and the dispatcher
C21_Witness ==
  \E r \in ReqIds :
    /\ req[r].stages = <<"Rate Limiter", "Upload Handler", "Backend Dispatcher">>
    /\ req[r].quota >= 1 /\ req[r].hasFile
    /\ req[r].tries # << >>

\* ------------------------------------------------------------------ C22
\* the three files a Strategy B call names from its timestamp
TmpNames(c) == {<<kind, c.ts>> : kind \in {"out", "err", "exit"}}
InFlight(c) == c.promise.state = "pending"

\* C22: two Strategy B calls in flight at the same time never use the same
\* temporary stdout, stderr or exit-status file.
C22_TmpFilesApart ==
  \A r, q \in CallIds :
    (r # q /\ InFlight(cli[r]) /\ InFlight(cli[q])) => TmpNames(cli[r]) \cap TmpNames(cli[q]) = {}

\* ------------------------------------------------------------------ C23
GatewayEnded == gw.proc \in {"gone", "exited"}
Dispatched(r) == req[r].tries = << >> /\ req'[r].tries # << >>

\* C23: gatewayReady is true only while the gateway process has not exited;
\* once the process has exited gatewayReady is false and is never set to true
\* again, and every later parse request goes directly to Strategy B.
C23_ReadyOnlyWhileRunning ==
  /\ [](gatewayReady => ~GatewayEnded)
  /\ [][GatewayEnded =>
          /\ GatewayEnded' /\ ~gatewayReady'
          /\ \A r \in ReqIds : Dispatched(r) => req'[r].tries = <<"B">>]_vars

\* C23 as amended: once the 'close' event of the gateway process has been
\* handled gatewayReady is false and is never set to true again, the process
\* is never started again, and every parse request dispatched from then on
\* goes directly to Strategy B.
C23_NotReadyAfterClose ==
  /\ [](gw.proc = "exited" => ~gatewayReady)
  /\ [][gw.proc = "exited" =>
          /\ gw'.proc = "exited" /\ ~gatewayReady'
          /\ \A r \in ReqIds :
               Dispatched(r) => req'[r].tries = <<"B">> /\ req'[r].pc = "awaitCLI"]_vars

\* C23 witness: the start had resolved, the process was closed, the 5 s timer
\* fired after that, and a request dispatched later went to Strategy B
C23_Witness ==
  /\ gw.proc = "exited" /\ gw.startup = "resolved" /\ gw.timer = "fired"
  /\ ~gatewayReady
  /\ \E r \in ReqIds : req[r].dispatch = "not ready" /\ req[r].tries = <<"B">>

\* ------------------------------------------------------------------ C24
Started(p) == p.state # "none"
Settled(p) == p.state \in {"resolved", "rejected"}

\* C24: every backend call settles, and keeps the outcome it settled with
\* whatever event arrives later; every parse request that has reached the
\* dispatcher receives one HTTP response, and never a second one.  The timers
\* fire and the handler's continuations run; nothing is assumed of the
\* gateway, the socket or the subprocess.
C24_SettleOnceAnswerOnce ==
  /\ [][\A r \in ReqIds :
          /\ Settled(gwc[r].promise) => gwc'[r].promise = gwc[r].promise
          /\ Settled(cli[r].promise) => cli'[r].promise = cli[r].promise
          /\ Settled(oc[r].promise) => oc'[r].promise = oc[r].promise
          /\ req[r].resp # << >> => req'[r].resp = req[r].resp]_vars
  /\ [](\A r \in ReqIds : Len(req[r].resp) <= 1)
  /\ \A r \in ReqIds :
       /\ Started(gwc[r].promise) ~> Settled(gwc[r].promise)
       /\ Started(cli[r].promise) ~> Settled(cli[r].promise)
       /\ Started(oc[r].promise) ~> Settled(oc[r].promise)
       /\ (req[r].tries # << >>) ~> (req[r].pc = "done" /\ Len(req[r].resp) = 1)

\* C24 witness: the gateway call failed on a socket error and the socket's
\* close came after it; the fallback was killed by its timer and the close of
\* the subprocess came after that; the request has its one response, the 500
\* of the timeout
C24_Witness ==
  \E r \in ReqIds :
    /\ req[r].tries = <<"A", "B">>
    /\ gwc[r].promise = [state |-> "rejected", value |-> <<"connect ECONNREFUSED">>]
    /\ gwc[r].ws = "closed"
    /\ cli[r].timeout = "fired" /\ cli[r].proc = "closed"
    /\ req[r].resp =
         <<ErrorJson(500, <<"Timeout waiting for OpenClaw response (5 minutes)">>)>>

\* ------------------------------------------------------------------ C25
\* C25: a processWithGateway call that is pending when the socket's error
\* event or the 5-minute timer arrives is rejected by it, with or without
\* partial content, and stays rejected when the close follows; a call comes
\* to succeed without a terminal message only at a close, with content in its
\* buffer, while it is still pending (no error, timeout or terminal message
\* has come before).
C25_ErrorAndTimeoutFail ==
  /\ [][\A r \in ReqIds :
          /\ (IsPending(gwc[r].promise) /\ gwc[r].ws # "errored" /\ gwc'[r].ws = "errored") =>
               gwc'[r].promise.state = "rejected"
          /\ (IsPending(gwc[r].promise) /\ gwc[r].timeout = "armed"
                /\ gwc'[r].timeout = "fired") =>
               gwc'[r].promise = [state |-> "rejected", value |-> <<"Gateway timeout">>]
          /\ (gwc[r].promise.state # "resolved" /\ gwc'[r].promise.state = "resolved"
                /\ ~gwc'[r].messageReceived) =>
               /\ IsPending(gwc[r].promise)
               /\ gwc[r].ws # "closed" /\ gwc'[r].ws = "closed"
               /\ gwc[r].timeout = "armed"
               /\ Truthy(gwc[r].fullResponse)
               /\ gwc'[r].promise.value = gwc[r].fullResponse
          /\ gwc[r].promise.state = "rejected" => gwc'[r].promise = gwc[r].promise]_vars
  /\ [](\A r \in ReqIds :
          (gwc[r].promise.state = "resolved" /\ ~gwc[r].messageReceived) =>
             gwc[r].ws = "closed" /\ gwc[r].timeout = "cleared")

\* C25 witness: a call that held partial content was rejected by the socket's
\* error event, and the close that followed has left it rejected
C25_Witness ==
  \E r \in ReqIds :
    /\ Truthy(gwc[r].fullResponse) /\ ~gwc[r].messageReceived
    /\ gwc[r].promise = [state |-> "rejected", value |-> <<"connect ECONNREFUSED">>]
    /\ gwc[r].ws = "closed"

\* ------------------------------------------------------------------ C26
Status(r) == IF req[r].resp = << >> THEN 0 ELSE req[r].resp[1].status
PastGate(r) == req[r].quota >= 1

\* the requests of an identity that the gate has let through
Admitted(ip) == {r \in ReqIds : req[r].ip = ip /\ PastGate(r)}

\* C26: the step that answers 401 leaves every window as it was, and so does
\* the step that answers 429; the step that lets a request through the gate
\* takes one unit from the window of the request's identity and nothing from
\* any other; no later step of the request gives the unit back, whether the
\* request ends in 400, in an upload error, in 500 or in 200: what an identity
\* has left is what it had less one unit for each of its admitted requests.
C26_QuotaPastKeyCheck ==
  /\ [][\A r \in ReqIds :
          /\ (Status(r) = 0 /\ req'[r].resp # << >> /\ req'[r].resp[1].status \in {401, 429}) =>
               rateLimits' = rateLimits
          /\ (req[r].pc = "rateGate" /\ req'[r].pc = "upload") =>
               /\ QuotaLeft(rateLimits', req[r].ip, now) = QuotaLeft(rateLimits, req[r].ip, now) - 1
               /\ \A ip \in ClientIds \ {req[r].ip} : rateLimits'[ip] = rateLimits[ip]
          /\ (PastGate(r) /\ req'[r] # req[r]) => rateLimits' = rateLimits]_vars
  /\ [](/\ \A r \in ReqIds : Status(r) = 401 => ~PastGate(r) /\ req[r].stages = << >>
        /\ \A ip \in ClientIds :
             QuotaLeft(rateLimits, ip, now) =
               QuotaLeft(ServedWindows, ip, 0) - Cardinality(Admitted(ip)))

\* C26 witness: a request without a file has been answered 400, and the unit
\* it took at the gate is gone from its identity's window
C26_Witness ==
  \E r \in ReqIds :
    /\ Status(r) = 400
    /\ req[r].quota = RATE_LIMIT
    /\ rateLimits[req[r].ip].count = 1

\* ------------------------------------------------------------------ C27
\* C27: inside an interval of length RATE_WINDOW the calls of checkRateLimit
\* for one identity return true at most 2 * RATE_LIMIT (200) times; the reset
\* time of an identity's window changes only at a call made strictly after it,
\* and the new window then lasts RATE_WINDOW from that call.
C27_TwoWindowsPerInterval ==
  /\ [](watch.n <= 2 * RATE_LIMIT)
  /\ [][\A ip \in ClientIds :
          (rateLimits[ip] # NoRecord /\ rateLimits'[ip].resetAt # rateLimits[ip].resetAt) =>
            /\ now > rateLimits[ip].resetAt
            /\ rateLimits'[ip] = [count |-> 1, resetAt |-> now + RATE_WINDOW]]_vars

\* C27 witness: the interval took the last 99 calls of one window and all 100
\* of the next, and the first call of a third window, made after the interval
\* had passed, returned true without being counted in it
C27_Witness ==
  /\ watch.n = 2 * RATE_LIMIT - 1
  /\ now > watch.from + RATE_WINDOW
  /\ rlLast.ip = watch.ip /\ rlLast.ok /\ rlLast.nth = 1
  /\ rateLimits[watch.ip] = [count |-> 1, resetAt |-> now + RATE_WINDOW]

====
